---------------------------- MODULE Spec2Model ----------------------------
(***************************************************************************)
(* A model of the image compositing and canvas-geometry utilities of       *)
(* cpgvn-app (src/services/geminiService.ts).                              *)
(*                                                                         *)
(* src/services/geminiService.ts holds two copies of the service: the      *)
(* current one (lines 1-690, the one that exports getActivationCode and    *)
(* generates through the REST helper) and an earlier one (lines 691-1378). *)
(* strictComposite, padImageToAspectRatioWithColor and                     *)
(* getClosestAspectRatio are the same in both; outpaintImage differs and   *)
(* both bodies are modelled.                                               *)
(*                                                                         *)
(* Pixels. A canvas pixel is <<c, a>>: one 8-bit colour channel c and an   *)
(* 8-bit alpha a. The compositing operators of the 2D canvas treat the     *)
(* three colour channels alike, so one channel stands for all three. A     *)
(* fully transparent pixel carries no colour (canvas storage is            *)
(* premultiplied), so it is always <<0, 0>>.                               *)
(*                                                                         *)
(* Numbers. Aspect ratios are JavaScript doubles in the source; here a     *)
(* ratio is an exact fraction <<num, den>>. Math.round(x) is               *)
(* floor(x + 1/2).                                                         *)
(***************************************************************************)
EXTENDS Integers, Sequences, FiniteSets, TLC

---------------------------------------------------------------------------
(* Bounds of the model *)

\* largest width and height of the enumerated originals and candidates
MaxDim == 2
\* largest number of pixels of an enumerated mask
MaxMaskPixels == 4
\* largest width and height of the enumerated sources of padding/outpainting
MaxPadDim == 3
\* largest width and height of the images given to getClosestAspectRatio
MaxRatioDim == 8
\* largest width and height of the enumerated images given to cropImage
MaxCropDim == 3
\* largest imageCount asked of generateImageRest, and largest number of
\* predictions in an answer of the Imagen endpoint
MaxImageCount == 3
\* largest number of updateGeminiApiKey calls in a run
MaxKeyUpdates == 3
\* largest length of the emails given to getActivationCode
MaxEmailLen == 6
\* largest number of pointer and toolbar events the mask editor handles
MaxEditorEvents == 3
\* largest number of results handleGenerate stores
MaxGenerations == 1
\* largest number of user actions in the virtual tour
MaxTourActions == 5
\* largest lengths of the enumerated base64 payloads and media types
MaxPayloadLen == 2
MaxMimeLen == 2
\* largest number of user actions on the expand utility
MaxExpandActions == 3
\* largest number of user actions on the render tabs while the busy flags are
\* followed
MaxBusyActions == 4
\* largest number of user actions on the render tabs of the App
MaxAppActions == 7
\* largest number of edits and utility generations that reach the App
MaxBatches == 6

---------------------------------------------------------------------------
(* Pixels and images *)

\* the value of a fully set 8-bit channel
ChannelMax == 2^8 - 1

Transparent == <<0, 0>>
Opaque(c) == <<c, ChannelMax>>
\* the CSS colours the source names
black == 0
white == 255

\* n / d rounded to the nearest integer (n >= 0, d > 0), halves up
RDiv(n, d) == (2 * n + d) \div (2 * d)

\* Math.abs of an integer
AbsInt(n) == IF n >= 0 THEN n ELSE 0 - n

\* a pixel as a canvas stores it
Canon(p) == IF p[2] = 0 THEN Transparent ELSE p

Coords(w, h) == (0 .. (w - 1)) \X (0 .. (h - 1))

NoImage == [w |-> 0, h |-> 0, px |-> [p \in {} |-> Transparent]]

InImage(img, x, y) == x >= 0 /\ x < img.w /\ y >= 0 /\ y < img.h

\* the pixel of img at (x, y); transparent outside the image
PixelAt(img, x, y) == IF InImage(img, x, y) THEN img.px[<<x, y>>] ELSE Transparent

\* the pixel that drawImage(img, 0, 0, w, h) puts at (x, y): img stretched
\* to w x h, sampled at the centre of the destination pixel
StretchedPixel(img, w, h, x, y) ==
    img.px[<<((2 * x + 1) * img.w) \div (2 * w), ((2 * y + 1) * img.h) \div (2 * h)>>]

\* globalCompositeOperation: the pixel left where source pixel s is drawn
\* on destination pixel d
Blend(op, d, s) ==
    CASE op = "source-over" ->
            LET a == s[2] + RDiv(d[2] * (ChannelMax - s[2]), ChannelMax)
            IN  IF a = 0 THEN Transparent
                ELSE <<RDiv(s[1] * s[2] * ChannelMax + d[1] * d[2] * (ChannelMax - s[2]),
                            a * ChannelMax), a>>
      [] op = "destination-in" -> Canon(<<d[1], RDiv(d[2] * s[2], ChannelMax)>>)
      [] op = "source-in" -> Canon(<<s[1], RDiv(s[2] * d[2], ChannelMax)>>)
      [] op = "destination-out" ->
            Canon(<<d[1], RDiv(d[2] * (ChannelMax - s[2]), ChannelMax)>>)

\* document.createElement('canvas') with its width and height set
createCanvas(w, h) == [w |-> w, h |-> h, px |-> [p \in Coords(w, h) |-> Transparent]]

\* ctx.drawImage(img, dx, dy) under composite operation op
drawImage(canvas, img, dx, dy, op) ==
    [canvas EXCEPT !.px = [p \in Coords(canvas.w, canvas.h) |->
        Blend(op, canvas.px[p], PixelAt(img, p[1] - dx, p[2] - dy))]]

\* ctx.drawImage(img, 0, 0, canvas.width, canvas.height) under op
drawImageScaled(canvas, img, op) ==
    [canvas EXCEPT !.px = [p \in Coords(canvas.w, canvas.h) |->
        Blend(op, canvas.px[p], StretchedPixel(img, canvas.w, canvas.h, p[1], p[2]))]]

\* ctx.fillStyle = colour; ctx.fillRect(x, y, w, h) (source-over)
fillRect(canvas, x, y, w, h, colour) ==
    [canvas EXCEPT !.px = [p \in Coords(canvas.w, canvas.h) |->
        IF p[1] >= x /\ p[1] < x + w /\ p[2] >= y /\ p[2] < y + h
        THEN Blend("source-over", canvas.px[p], Opaque(colour))
        ELSE canvas.px[p]]]

---------------------------------------------------------------------------
(* Data URLs *)

\* A data-URL string: ok says whether the browser can decode it to an image,
\* img is the decoded image, id tells undecodable strings apart.
NoUrl == [ok |-> FALSE, id |-> 0, img |-> NoImage]
BadUrl(i) == [ok |-> FALSE, id |-> i, img |-> NoImage]

\* canvas.toDataURL('image/png'): PNG keeps every canvas pixel
toDataURL(canvas) == [ok |-> TRUE, id |-> 0, img |-> canvas]

\* loadImage settles: resolved with the decoded image, or rejected
loadImage(src) ==
    IF src.ok THEN [status |-> "resolved", img |-> src.img]
    ELSE [status |-> "rejected", img |-> NoImage]

---------------------------------------------------------------------------
(* State *)

VARIABLES
    \* strictComposite: where the call is, its three arguments, its outcome
    scPc, scArgs, scOut,
    \* padImageToAspectRatioWithColor: where the call is, its arguments, its
    \* locals (canvasWidth, canvasHeight, dx, dy), its outcome, and the
    \* outcome of padding that outcome again
    padPc, padArgs, padLocals, padOut, padOut2,
    \* outpaintImage: where the call is, which copy of the function runs, its
    \* arguments, its locals, what it sent to the remote model, what the
    \* remote model answered, its outcome
    opPc, opImpl, opArgs, opLocals, opRequest, opResponse, opOut,
    \* getClosestAspectRatio: where the call is, its argument, its outcome
    gcaPc, gcaImage, gcaOut,
    \* cropImage: where the call is, its arguments (image, box), its outcome
    crPc, crArgs, crOut,
    \* compositeImage: where the call is, its arguments, its outcome, and the
    \* outcome of the same call with another box
    ciPc, ciArgs, ciOut, ciOut2,
    \* generateImageRest: where the call is, the stored API key, imageCount,
    \* the requests sent so far, the answer of the Imagen endpoint, the
    \* results of the fallback requests, the outcome
    girPc, girKey, girCount, girSent, girImagen, girResults, girOut,
    \* concurrent compositing calls, per call: where it is, which function it
    \* is, its arguments, the loads in flight, the loads still to start; per
    \* frame of local constants: the images loaded so far; per call: its
    \* outcome; and whether steps of the two calls have alternated
    ccPc, ccKind, ccArgs, ccPending, ccQueue, ccLocals, ccOut, ccOverlap,
    \* the API key: whether the module is loaded, the item
    \* 'cpgvn_gemini_api_key' of localStorage, process.env.API_KEY of the
    \* build, the client singleton ai, the argument of the latest
    \* updateGeminiApiKey, the latest remote request, and the number of
    \* updateGeminiApiKey calls so far
    akPc, akStorage, akEnv, akAi, akLast, akRequest, akUpdates,
    \* getActivationCode: whether it was called, its argument (the UTF-16
    \* codes of the email), the string returned (its characters, all digits,
    \* as numbers)
    acPc, acEmail, acCode,
    \* ImageEditor: state.originalImage, activeMode, brushOpacity (as an
    \* 8-bit alpha)
    edOriginal, edMode, edOpacity,
    \* the mask editor mounted on the original: the stroke canvas, the drawing
    \* settings left on its context, isDrawing, lastPos, the undo history,
    \* and the number of pointer and toolbar events handled so far
    edCanvas, edCtx, edDrawing, edLast, edStrokeHistory, edEvents,
    \* handleGenerate: where it stands, what snapshot() returned to it (with
    \* the stroke canvas it was taken from), the remote result, and
    \* state.history, comparisonData, state.isProcessing
    edPc, edSnap, edGenerated, edHistory, edComparison, edProcessing,
    \* for the newest stored result, the snapshot it was produced from
    edResultOf,
    \* VirtualTourTab: currentImage, undoStack, redoStack, isLoading,
    \* activeEffect; the request in flight with the currentImage its handler
    \* closed over; the number of images generated and of user actions so
    \* far; whether the user has not navigated, applied an effect, undone or
    \* redone since the last upload or removal
    vtCurrent, vtUndo, vtRedo, vtLoading, vtEffect, vtPending, vtGenerated,
    vtActions, vtQuiet,
    \* App: activeTab; the activeTab that the memoised handleGeneration closed
    \* over (through updateActiveTabState); tabStates; isLoading; the request
    \* in flight; what generateImages last resolved to; the history lists of
    \* the render tabs; the number of user actions so far
    apActiveTab, apCallbackTab, apTabStates, apLoading, apPending, apOut,
    apHistory, apActions,
    \* App: editHistory, utilitiesHistory, presentationBoardHistory and
    \* diagramHistory; the number of items given to them so far
    hsHistory, hsBatches,
    \* ExpandUtility: the selection, the preview, the preview computations
    \* that are pending, the busy flag, the request in flight, the result
    exSource, exRatio, exPreview, exRuns, exLoading, exPending, exResult,
    exActions,
    \* the data-URL helpers: where the round trip is, the image, the string
    \* made of it, the value parsed back
    duPc, duImage, duUrl, duBack

scVars == <<scPc, scArgs, scOut>>
padVars == <<padPc, padArgs, padLocals, padOut, padOut2>>
opVars == <<opPc, opImpl, opArgs, opLocals, opRequest, opResponse, opOut>>
gcaVars == <<gcaPc, gcaImage, gcaOut>>
crVars == <<crPc, crArgs, crOut>>
ciVars == <<ciPc, ciArgs, ciOut, ciOut2>>
girVars == <<girPc, girKey, girCount, girSent, girImagen, girResults, girOut>>
ccVars == <<ccPc, ccKind, ccArgs, ccPending, ccQueue, ccLocals, ccOut, ccOverlap>>
akVars == <<akPc, akStorage, akEnv, akAi, akLast, akRequest, akUpdates>>
acVars == <<acPc, acEmail, acCode>>
edVars == <<edOriginal, edMode, edOpacity, edCanvas, edCtx, edDrawing, edLast,
           edStrokeHistory, edEvents, edPc, edSnap, edGenerated, edHistory,
           edComparison, edProcessing, edResultOf>>
vtVars == <<vtCurrent, vtUndo, vtRedo, vtLoading, vtEffect, vtPending,
            vtGenerated, vtActions, vtQuiet>>
apVars == <<apActiveTab, apCallbackTab, apTabStates, apLoading, apPending,
            apOut, apHistory, apActions>>
hsVars == <<hsHistory, hsBatches>>
exVars == <<exSource, exRatio, exPreview, exRuns, exLoading, exPending,
            exResult, exActions>>
duVars == <<duPc, duImage, duUrl, duBack>>
vars == <<scVars, padVars, opVars, gcaVars, crVars, ciVars, girVars, ccVars,
          akVars, acVars, edVars, vtVars, apVars, hsVars, exVars, duVars>>

\* what the actions of one function leave alone: the state of the others
scFrame == <<padVars, opVars, gcaVars, crVars, ciVars, girVars, ccVars, akVars,
             acVars, edVars, vtVars, apVars, hsVars, exVars, duVars>>
padFrame == <<scVars, opVars, gcaVars, crVars, ciVars, girVars, ccVars, akVars,
              acVars, edVars, vtVars, apVars, hsVars, exVars, duVars>>
opFrame == <<scVars, padVars, gcaVars, crVars, ciVars, girVars, ccVars, akVars,
             acVars, edVars, vtVars, apVars, hsVars, exVars, duVars>>
gcaFrame == <<scVars, padVars, opVars, crVars, ciVars, girVars, ccVars, akVars,
              acVars, edVars, vtVars, apVars, hsVars, exVars, duVars>>
crFrame == <<scVars, padVars, opVars, gcaVars, ciVars, girVars, ccVars, akVars,
             acVars, edVars, vtVars, apVars, hsVars, exVars, duVars>>
ciFrame == <<scVars, padVars, opVars, gcaVars, crVars, girVars, ccVars, akVars,
             acVars, edVars, vtVars, apVars, hsVars, exVars, duVars>>
girFrame == <<scVars, padVars, opVars, gcaVars, crVars, ciVars, ccVars, akVars,
              acVars, edVars, vtVars, apVars, hsVars, exVars, duVars>>
ccFrame == <<scVars, padVars, opVars, gcaVars, crVars, ciVars, girVars, akVars,
             acVars, edVars, vtVars, apVars, hsVars, exVars, duVars>>
akFrame == <<scVars, padVars, opVars, gcaVars, crVars, ciVars, girVars, ccVars,
             acVars, edVars, vtVars, apVars, hsVars, exVars, duVars>>
acFrame == <<scVars, padVars, opVars, gcaVars, crVars, ciVars, girVars, ccVars,
             akVars, edVars, vtVars, apVars, hsVars, exVars, duVars>>
edFrame == <<scVars, padVars, opVars, gcaVars, crVars, ciVars, girVars, ccVars,
             akVars, acVars, vtVars, apVars, hsVars, exVars, duVars>>
vtFrame == <<scVars, padVars, opVars, gcaVars, crVars, ciVars, girVars, ccVars,
             akVars, acVars, edVars, apVars, hsVars, exVars, duVars>>
apFrame == <<scVars, padVars, opVars, gcaVars, crVars, ciVars, girVars, ccVars,
             akVars, acVars, edVars, vtVars, hsVars, exVars, duVars>>
hsFrame == <<scVars, padVars, opVars, gcaVars, crVars, ciVars, girVars, ccVars,
             akVars, acVars, edVars, vtVars, apVars, exVars, duVars>>
exFrame == <<scVars, padVars, opVars, gcaVars, crVars, ciVars, girVars, ccVars,
             akVars, acVars, edVars, vtVars, apVars, hsVars, duVars>>
duFrame == <<scVars, padVars, opVars, gcaVars, crVars, ciVars, girVars, ccVars,
             akVars, acVars, edVars, vtVars, apVars, hsVars, exVars>>

NoOutcome == [status |-> "none", value |-> NoUrl]

---------------------------------------------------------------------------
(* strictComposite *)

\* strictCompositeCanvas with the candidate drawn unscaled, drawImage(gen, 0, 0)
strictCompositeCanvas_unscaled(orig, gen, mask) ==
    LET canvas == drawImage(createCanvas(orig.w, orig.h), orig, 0, 0, "source-over")
        tempGen == drawImage(createCanvas(canvas.w, canvas.h), gen, 0, 0, "source-over")
        tempCanvas == drawImageScaled(tempGen, mask, "destination-in")
    IN  drawImage(canvas, tempCanvas, 0, 0, "source-over")

\* the body of the try block once the three images are loaded
strictCompositeCanvas(orig, gen, mask) ==
    LET canvas == drawImage(createCanvas(orig.w, orig.h), orig, 0, 0, "source-over")
        tempGen == drawImageScaled(createCanvas(canvas.w, canvas.h), gen, "source-over")
        tempCanvas == drawImageScaled(tempGen, mask, "destination-in")
    IN  drawImage(canvas, tempCanvas, 0, 0, "source-over")

\* strictComposite without its catch block: a failed load rejects the call
strictComposite_nocatch(originalB64, generatedB64, maskB64) ==
    LET orig == loadImage(originalB64)
        gen == loadImage(generatedB64)
        mask == loadImage(maskB64)
    IN  IF orig.status = "resolved" /\ gen.status = "resolved" /\ mask.status = "resolved"
        THEN [status |-> "resolved",
              value |-> toDataURL(strictCompositeCanvas(orig.img, gen.img, mask.img))]
        ELSE [status |-> "rejected", value |-> NoUrl]

\* the settled promise of strictComposite(originalB64, generatedB64, maskB64)
strictComposite(originalB64, generatedB64, maskB64) ==
    LET orig == loadImage(originalB64)
        gen == loadImage(generatedB64)
        mask == loadImage(maskB64)
    IN  IF orig.status = "resolved" /\ gen.status = "resolved" /\ mask.status = "resolved"
        THEN [status |-> "resolved",
              value |-> toDataURL(strictCompositeCanvas(orig.img, gen.img, mask.img))]
        ELSE \* Promise.all rejected: the catch block
             [status |-> "resolved", value |-> generatedB64]

(* The arguments the model enumerates *)

Dims == (1 .. MaxDim) \X (1 .. MaxDim)

\* a photo: opaque, every pixel of a small image a different colour
Photo(w, h) ==
    [w |-> w, h |-> h, px |-> [p \in Coords(w, h) |-> Opaque(20 + ((p[1] + 17 * p[2]) % 100))]]

\* what the remote model returns: opaque, or with its first pixel fully
\* ("hole") or half ("veil") transparent, as a PNG may be
Generated(w, h, kind) ==
    [w |-> w, h |-> h, px |-> [p \in Coords(w, h) |->
        IF p = <<0, 0>> /\ kind = "hole" THEN Transparent
        ELSE IF p = <<0, 0>> /\ kind = "veil" THEN <<130, 128>>
        ELSE Opaque(130 + ((p[1] + 17 * p[2]) % 100))]]

\* a mask pixel: selected (opaque white), or not selected, which is either
\* opaque black (the B/W mask the editor builds) or fully transparent
MaskWhite == Opaque(white)
MaskBlack == Opaque(black)
MaskPixels == {MaskWhite, MaskBlack, Transparent}

MaskDims == {d \in Dims : d[1] * d[2] <= MaxMaskPixels}

Masks == UNION {{[w |-> d[1], h |-> d[2], px |-> f] : f \in [Coords(d[1], d[2]) -> MaskPixels]}
                : d \in MaskDims}

OriginalUrls == {toDataURL(Photo(d[1], d[2])) : d \in Dims} \cup {BadUrl(1)}
CandidateUrls == {toDataURL(Generated(d[1], d[2], k)) : d \in Dims, k \in {"opaque", "hole", "veil"}}
                    \cup {BadUrl(2)}
MaskUrls == {toDataURL(m) : m \in Masks} \cup {BadUrl(3)}

NoArgs == [originalB64 |-> NoUrl, generatedB64 |-> NoUrl, maskB64 |-> NoUrl]

ScIdle == scPc = "idle" /\ scArgs = NoArgs /\ scOut = NoOutcome

\* a caller invokes strictComposite(o, g, m); the three loads start
StrictCompositeCall ==
    /\ scPc = "idle"
    /\ \E o \in OriginalUrls, g \in CandidateUrls, m \in MaskUrls :
          scArgs' = [originalB64 |-> o, generatedB64 |-> g, maskB64 |-> m]
    /\ scPc' = "pending"
    /\ UNCHANGED <<scOut, scFrame>>

\* the loads settle and the rest of the function runs to its return
StrictCompositeSettle ==
    /\ scPc = "pending"
    /\ scOut' = strictComposite(scArgs.originalB64, scArgs.generatedB64, scArgs.maskB64)
    /\ scPc' = "settled"
    /\ UNCHANGED <<scArgs, scFrame>>

---------------------------------------------------------------------------
(* padImageToAspectRatioWithColor *)

\* Math.round(n / d) for d > 0: floor(n / d + 1/2)
MathRound(n, d) == (2 * n + d) \div (2 * d)

\* the aspect ratios of the expand utility, <<num, den>>: the six of its
\* list and 1.777, the initial value of its state
Ratios == {<<16, 9>>, <<9, 16>>, <<4, 3>>, <<3, 4>>, <<1, 1>>, <<21, 9>>, <<1777, 1000>>}

\* PadGeometry with Math.floor in place of Math.round
PadGeometry_floor(w, h, r) ==
    IF w * r[2] > h * r[1]
    THEN LET canvasHeight == (w * r[2]) \div r[1]
         IN  [canvasWidth |-> w, canvasHeight |-> canvasHeight,
              dx |-> 0, dy |-> (canvasHeight - h) \div 2]
    ELSE LET canvasWidth == (h * r[1]) \div r[2]
         IN  [canvasWidth |-> canvasWidth, canvasHeight |-> h,
              dx |-> (canvasWidth - w) \div 2, dy |-> 0]

\* PadGeometry with the comparison of the two ratios turned round
PadGeometry_swapped(w, h, r) ==
    IF w * r[2] < h * r[1]
    THEN LET canvasHeight == MathRound(w * r[2], r[1])
         IN  [canvasWidth |-> w, canvasHeight |-> canvasHeight,
              dx |-> 0, dy |-> MathRound(canvasHeight - h, 2)]
    ELSE LET canvasWidth == MathRound(h * r[1], r[2])
         IN  [canvasWidth |-> canvasWidth, canvasHeight |-> h,
              dx |-> MathRound(canvasWidth - w, 2), dy |-> 0]

\* canvasWidth, canvasHeight, dx, dy for a w x h image and target ratio
\* r = <<num, den>>; originalAspectRatio > targetAspectRatio is
\* w / h > num / den
PadGeometry(w, h, r) ==
    IF w * r[2] > h * r[1]
    THEN LET canvasHeight == MathRound(w * r[2], r[1])
         IN  [canvasWidth |-> w, canvasHeight |-> canvasHeight,
              dx |-> 0, dy |-> MathRound(canvasHeight - h, 2)]
    ELSE LET canvasWidth == MathRound(h * r[1], r[2])
         IN  [canvasWidth |-> canvasWidth, canvasHeight |-> h,
              dx |-> MathRound(canvasWidth - w, 2), dy |-> 0]

NoLocals == [canvasWidth |-> 0, canvasHeight |-> 0, dx |-> 0, dy |-> 0]

\* the canvas the function draws: filled with the colour, the image on top
PaddedCanvas(img, g, color) ==
    drawImage(fillRect(createCanvas(g.canvasWidth, g.canvasHeight),
                       0, 0, g.canvasWidth, g.canvasHeight, color),
              img, g.dx, g.dy, "source-over")

\* the settled promise of padImageToAspectRatioWithColor(image, ratio, color)
\* with the locals it computed; a failed load rejects it
padImageToAspectRatioWithColor(image, targetAspectRatio, color) ==
    LET img == loadImage(image)
        g == PadGeometry(img.img.w, img.img.h, targetAspectRatio)
    IN  IF img.status = "resolved"
        THEN [status |-> "resolved", locals |-> g,
              value |-> toDataURL(PaddedCanvas(img.img, g, color))]
        ELSE [status |-> "rejected", locals |-> NoLocals, value |-> NoUrl]

PadDims == (1 .. MaxPadDim) \X (1 .. MaxPadDim)

\* the sources and ratios enumerated: every small image with every ratio,
\* and a 200 x 100 image padded to a square
PadCalls == (PadDims \X Ratios) \cup {<<(<<200, 100>>), (<<1, 1>>)>>}

NoPadArgs == [image |-> NoUrl, targetAspectRatio |-> <<1, 1>>, color |-> white]

PadIdle ==
    /\ padPc = "idle" /\ padArgs = NoPadArgs /\ padLocals = NoLocals
    /\ padOut = NoOutcome /\ padOut2 = NoOutcome

\* padImageToAspectRatioWithColor(image, targetAspectRatio, color) runs
PadImage ==
    /\ padPc = "idle"
    /\ \E c \in PadCalls, color \in {white, black}, loads \in BOOLEAN :
          LET image == IF loads THEN toDataURL(Photo(c[1][1], c[1][2])) ELSE BadUrl(4)
              res == padImageToAspectRatioWithColor(image, c[2], color)
          IN  /\ padArgs' = [image |-> image, targetAspectRatio |-> c[2], color |-> color]
              /\ padLocals' = res.locals
              /\ padOut' = [status |-> res.status, value |-> res.value]
    /\ padPc' = "padded"
    /\ UNCHANGED <<padOut2, padFrame>>

\* the padded image is padded again to the same ratio with the same colour
PadAgain ==
    /\ padPc = "padded"
    /\ padOut.status = "resolved"
    /\ LET res == padImageToAspectRatioWithColor(padOut.value, padArgs.targetAspectRatio,
                                                 padArgs.color)
       IN  padOut2' = [status |-> res.status, value |-> res.value]
    /\ padPc' = "repadded"
    /\ UNCHANGED <<padArgs, padLocals, padOut, padFrame>>

---------------------------------------------------------------------------
(* outpaintImage *)

NoRequest == [sent |-> FALSE, images |-> <<>>, aspectRatio |-> "none"]
NoResponse == [kind |-> "none", image |-> NoUrl]
NoOpArgs == [sourceImage |-> NoUrl, targetAspectRatio |-> <<1, 1>>]

OpIdle ==
    /\ opPc = "idle" /\ opImpl = "none" /\ opArgs = NoOpArgs /\ opLocals = NoLocals
    /\ opRequest = NoRequest /\ opResponse = NoResponse /\ opOut = NoOutcome

\* the source images and ratios enumerated
OpCalls == {[sourceImage |-> u, targetAspectRatio |-> r] :
               u \in {toDataURL(Photo(d[1], d[2])) : d \in PadDims} \cup {BadUrl(5)},
               r \in Ratios}

\* what the remote model may answer: an image (of any size, perhaps
\* undecodable), no image, or an error
RemoteImages == {toDataURL(Generated(d[1], d[2], k)) : d \in Dims, k \in {"opaque", "hole"}}
                   \cup {BadUrl(6)}

\* the mask canvas of the earlier copy: white, with the source's rectangle black
OutpaintMaskCanvas(img, g) ==
    fillRect(fillRect(createCanvas(g.canvasWidth, g.canvasHeight),
                      0, 0, g.canvasWidth, g.canvasHeight, white),
             g.dx, g.dy, img.w, img.h, black)

\* the final canvas of the earlier copy: the answer stretched over the
\* canvas, the source drawn again at (dx, dy)
OutpaintFinalCanvas(img, g, resultImg) ==
    drawImage(drawImageScaled(createCanvas(g.canvasWidth, g.canvasHeight), resultImg,
                              "source-over"),
              img, g.dx, g.dy, "source-over")

\* outpaintImage, current copy (lines 682-689): neither the source image nor
\* the target ratio is used; the REST helper is asked for one 16:9 image
\* from the prompt alone
OutpaintImage ==
    /\ opPc = "idle"
    /\ \E a \in OpCalls : opArgs' = a
    /\ opImpl' = "rest"
    /\ opRequest' = [sent |-> TRUE, images |-> <<>>, aspectRatio |-> "16:9"]
    /\ opPc' = "awaiting"
    /\ UNCHANGED <<opLocals, opResponse, opOut, opFrame>>

\* current copy: generateImageRest resolves with a list of at most one
\* image; the call returns images[0] || null
OutpaintImageReturn ==
    /\ opPc = "awaiting" /\ opImpl = "rest"
    /\ \E resp \in {[kind |-> "image", image |-> u] : u \in RemoteImages} \cup {NoResponse} :
          /\ opResponse' = resp
          /\ opOut' = [status |-> "resolved", value |-> resp.image]
    /\ opPc' = "settled"
    /\ UNCHANGED <<opImpl, opArgs, opLocals, opRequest, opFrame>>

\* outpaintImage, earlier copy (lines 1336-1377), to its request: the source
\* is loaded (a failed load rejects the call), the padded canvas and the
\* mask canvas are drawn and sent
OutpaintImageCanvas ==
    /\ opPc = "idle"
    /\ \E a \in OpCalls :
          LET img == loadImage(a.sourceImage)
              g == PadGeometry(img.img.w, img.img.h, a.targetAspectRatio)
          IN  /\ opArgs' = a
              /\ IF img.status = "resolved"
                 THEN /\ opLocals' = g
                      /\ opRequest' = [sent |-> TRUE,
                                       images |-> <<toDataURL(PaddedCanvas(img.img, g, black)),
                                                    toDataURL(OutpaintMaskCanvas(img.img, g))>>,
                                       aspectRatio |-> "none"]
                      /\ opPc' = "awaiting"
                      /\ UNCHANGED opOut
                 ELSE /\ opOut' = [status |-> "rejected", value |-> NoUrl]
                      /\ opPc' = "settled"
                      /\ UNCHANGED <<opLocals, opRequest>>
    /\ opImpl' = "canvas"
    /\ UNCHANGED <<opResponse, opFrame>>

\* earlier copy, from the answer to the return: an error is thrown on, no
\* image part gives null, an image is loaded (a failed load rejects) and
\* composed with the source
OutpaintImageCanvasReturn ==
    /\ opPc = "awaiting" /\ opImpl = "canvas"
    /\ \E resp \in {[kind |-> "image", image |-> u] : u \in RemoteImages}
                      \cup {NoResponse, [kind |-> "error", image |-> NoUrl]} :
          /\ opResponse' = resp
          /\ opOut' =
                CASE resp.kind = "error" -> [status |-> "rejected", value |-> NoUrl]
                  [] resp.kind = "none" -> [status |-> "resolved", value |-> NoUrl]
                  [] resp.kind = "image" ->
                        IF loadImage(resp.image).status = "resolved"
                        THEN [status |-> "resolved",
                              value |-> toDataURL(OutpaintFinalCanvas(opArgs.sourceImage.img,
                                                                      opLocals, resp.image.img))]
                        ELSE [status |-> "rejected", value |-> NoUrl]
    /\ opPc' = "settled"
    /\ UNCHANGED <<opImpl, opArgs, opLocals, opRequest, opFrame>>

---------------------------------------------------------------------------
(* getClosestAspectRatio *)

\* ratios are compared in units of 1 / RatioScale
RatioScale == 10^4

\* supportedRatios, the values in units of 1 / RatioScale
supportedRatios ==
    << [label |-> "1:1", value |-> 10000],
       [label |-> "4:3", value |-> 13330],
       [label |-> "3:4", value |-> 7500],
       [label |-> "16:9", value |-> 17770],
       [label |-> "9:16", value |-> 5625] >>

\* Number.MAX_VALUE: larger than every difference that occurs
NumberMaxValue == 2^30

\* Math.abs(ratio - value) for ratio = w / h, in units of 1 / (RatioScale * h).
\* The source subtracts doubles; the exact difference orders the entries as
\* the doubles do for every width below 3000 and height below 2100 except
\* w / h = 2333 / 2000, an exact tie of 1.0 and 1.333 that the doubles
\* break in favour of "4:3".
RatioDiff(w, h, value) ==
    IF RatioScale * w >= value * h THEN RatioScale * w - value * h
    ELSE value * h - RatioScale * w

\* ScanRatios with diff <= minDiff: the last of several minima wins
RECURSIVE ScanRatios_lastwins(_, _, _, _, _)
ScanRatios_lastwins(i, w, h, minDiff, closest) ==
    IF i > Len(supportedRatios) THEN closest
    ELSE LET diff == RatioDiff(w, h, supportedRatios[i].value)
         IN  IF h # 0 /\ diff <= minDiff
             THEN ScanRatios_lastwins(i + 1, w, h, diff, supportedRatios[i].label)
             ELSE ScanRatios_lastwins(i + 1, w, h, minDiff, closest)

\* the for loop over supportedRatios from entry i on. For an image of height
\* 0 the ratio is Infinity (NaN when the width is 0 too), diff is Infinity
\* (NaN), and diff < minDiff is false
RECURSIVE ScanRatios(_, _, _, _, _)
ScanRatios(i, w, h, minDiff, closest) ==
    IF i > Len(supportedRatios) THEN closest
    ELSE LET diff == RatioDiff(w, h, supportedRatios[i].value)
         IN  IF h # 0 /\ diff < minDiff
             THEN ScanRatios(i + 1, w, h, diff, supportedRatios[i].label)
             ELSE ScanRatios(i + 1, w, h, minDiff, closest)

\* getClosestAspectRatio without its try/catch: a failed load rejects the call
getClosestAspectRatio_nocatch(image) ==
    LET img == loadImage(image)
    IN  IF img.status = "resolved"
        THEN [status |-> "resolved",
              label |-> ScanRatios(1, img.img.w, img.img.h, NumberMaxValue, "1:1")]
        ELSE [status |-> "rejected", label |-> ""]

\* the settled promise of getClosestAspectRatio(image); a failed load is
\* caught and gives "1:1"
getClosestAspectRatio(image) ==
    LET img == loadImage(image)
    IN  IF img.status = "resolved"
        THEN [status |-> "resolved",
              label |-> ScanRatios(1, img.img.w, img.img.h, NumberMaxValue, "1:1")]
        ELSE [status |-> "resolved", label |-> "1:1"]

NoLabel == [status |-> "none", label |-> ""]

GcaIdle == gcaPc = "idle" /\ gcaImage = NoUrl /\ gcaOut = NoLabel

RatioDims == (1 .. MaxRatioDim) \X (1 .. MaxRatioDim)
\* images that load with no rows (an SVG of height 0)
FlatDims == (0 .. MaxRatioDim) \X {0}

\* getClosestAspectRatio(image) is called; the load starts
GetClosestAspectRatioCall ==
    /\ gcaPc = "idle"
    /\ \E u \in {toDataURL(Photo(d[1], d[2])) : d \in RatioDims \cup FlatDims} \cup {BadUrl(7)} :
          gcaImage' = u
    /\ gcaPc' = "pending"
    /\ UNCHANGED <<gcaOut, gcaFrame>>

\* the load settles and the function runs to its return
GetClosestAspectRatioSettle ==
    /\ gcaPc = "pending"
    /\ gcaOut' = getClosestAspectRatio(gcaImage)
    /\ gcaPc' = "settled"
    /\ UNCHANGED <<gcaImage, gcaFrame>>

---------------------------------------------------------------------------
(* cropImage *)

\* A SourceImage {base64, mimeType}: base64 is given as the data URL the
\* browser decodes it from (an image element decodes by content, whatever
\* the media type of the header says)
NoSource == [base64 |-> NoUrl, mimeType |-> ""]

\* the coarseness of the lossy encoder in the model
JpegStep == 2^2

\* what an 'image/jpeg' encoding keeps of a canvas pixel: no alpha (the
\* pixel is laid on black) and a colour stored with a loss
JpegPixel(p) ==
    LET c == RDiv(p[1] * p[2], ChannelMax)
    IN  Opaque(c - (c % JpegStep))

\* canvas.toDataURL(type): PNG keeps every pixel, JPEG does not
toDataURLAs(canvas, type) ==
    IF type = "image/jpeg"
    THEN [ok |-> TRUE, id |-> 0,
          img |-> [canvas EXCEPT !.px = [p \in DOMAIN canvas.px |-> JpegPixel(canvas.px[p])]]]
    ELSE toDataURL(canvas)

\* cropCanvas with the box's origin ignored: drawImage(img, 0, 0, ...)
cropCanvas_origin(img, box) ==
    drawImage(createCanvas(MathRound(box.width, 1), MathRound(box.height, 1)),
              img, 0, 0, "source-over")

\* the canvas of cropImage for a box of whole pixels: drawImage(img, box.x,
\* box.y, box.width, box.height, 0, 0, box.width, box.height) copies the
\* source rectangle unscaled; what of it lies outside the image stays
\* transparent
cropCanvas(img, box) ==
    drawImage(createCanvas(MathRound(box.width, 1), MathRound(box.height, 1)),
              img, 0 - box.x, 0 - box.y, "source-over")

\* the settled promise of cropImage(image, box); a failed load rejects it
cropImage(image, box) ==
    LET img == loadImage(image.base64)
    IN  IF img.status = "resolved"
        THEN [status |-> "resolved",
              value |-> [base64 |-> toDataURLAs(cropCanvas(img.img, box), image.mimeType),
                         mimeType |-> image.mimeType]]
        ELSE [status |-> "rejected", value |-> NoSource]

CropDims == (1 .. MaxCropDim) \X (1 .. MaxCropDim)

MimeTypes == {"image/png", "image/jpeg"}

\* the images and boxes enumerated: every small image with every box of
\* whole pixels up to its size, inside it or not, and a 70 x 50 image with
\* the box {x: 10, y: 10, width: 50, height: 30}
CropCalls ==
    {[image |-> [base64 |-> toDataURL(Photo(d[1], d[2])), mimeType |-> t],
      box |-> [x |-> b[1], y |-> b[2], width |-> b[3], height |-> b[4]]] :
        d \in CropDims, t \in MimeTypes,
        b \in (0 .. (MaxCropDim - 1)) \X (0 .. (MaxCropDim - 1)) \X (1 .. MaxCropDim) \X (1 .. MaxCropDim)}
    \cup {[image |-> [base64 |-> toDataURL(Photo(70, 50)), mimeType |-> t],
           box |-> [x |-> 10, y |-> 10, width |-> 50, height |-> 30]] : t \in MimeTypes}
    \cup {[image |-> [base64 |-> BadUrl(8), mimeType |-> "image/png"],
           box |-> [x |-> 0, y |-> 0, width |-> 1, height |-> 1]]}

NoCropArgs == [image |-> NoSource, box |-> [x |-> 0, y |-> 0, width |-> 0, height |-> 0]]
NoCropOutcome == [status |-> "none", value |-> NoSource]

CrIdle == crPc = "idle" /\ crArgs = NoCropArgs /\ crOut = NoCropOutcome

\* cropImage(image, box) is called; the load starts
CropImageCall ==
    /\ crPc = "idle"
    /\ \E c \in CropCalls : crArgs' = c
    /\ crPc' = "pending"
    /\ UNCHANGED <<crOut, crFrame>>

\* the load settles and the function runs to its return
CropImageSettle ==
    /\ crPc = "pending"
    /\ crOut' = cropImage(crArgs.image, crArgs.box)
    /\ crPc' = "settled"
    /\ UNCHANGED <<crArgs, crFrame>>

---------------------------------------------------------------------------
(* compositeImage *)

\* the alpha that the filter blur(radius px) leaves at (x, y) of the drawn
\* mask: the mean alpha of the pixels within radius, those outside the
\* mask being transparent
BlurredAlpha(mask, x, y, radius) ==
    LET side == 2 * radius + 1
        Around == ((x - radius) .. (x + radius)) \X ((y - radius) .. (y + radius))
        RECURSIVE Sum(_)
        Sum(S) == IF S = {} THEN 0
                  ELSE LET q == CHOOSE q \in S : TRUE
                       IN  PixelAt(mask, q[1], q[2])[2] + Sum(S \ {q})
    IN  RDiv(Sum(Around), side * side)

\* fgCtx.drawImage(mask, 0, 0) on the new layer, under the blur filter when
\* edgeBlend > 0. Only the alpha of this layer is used afterwards.
drawMask(canvas, mask, edgeBlend) ==
    IF edgeBlend > 0
    THEN [canvas EXCEPT !.px = [p \in Coords(canvas.w, canvas.h) |->
              Canon(<<white, BlurredAlpha(mask, p[1], p[2], edgeBlend)>>)]]
    ELSE drawImage(canvas, mask, 0, 0, "source-over")

\* compositeImageCanvas with the foreground confined to the box: drawn
\* unscaled at (box.x, box.y)
compositeImageCanvas_boxed(bg, fg, box, mask, edgeBlend) ==
    LET canvas == drawImage(createCanvas(bg.w, bg.h), bg, 0, 0, "source-over")
        layer == drawMask(createCanvas(canvas.w, canvas.h), mask, edgeBlend)
        fgCanvas == drawImage(layer, fg, box.x, box.y, "source-in")
    IN  drawImage(canvas, fgCanvas, 0, 0, "source-over")

\* compositeImageCanvas with the mask stretched over the canvas
compositeImageCanvas_stretched(bg, fg, box, mask, edgeBlend) ==
    LET canvas == drawImage(createCanvas(bg.w, bg.h), bg, 0, 0, "source-over")
        layer == drawImageScaled(createCanvas(canvas.w, canvas.h), mask, "source-over")
        fgCanvas == drawImageScaled(layer, fg, "source-in")
    IN  drawImage(canvas, fgCanvas, 0, 0, "source-over")

\* the canvas compositeImage draws once its three images are loaded; box is
\* a parameter the body never reads
compositeImageCanvas(bg, fg, box, mask, edgeBlend) ==
    LET canvas == drawImage(createCanvas(bg.w, bg.h), bg, 0, 0, "source-over")
        layer == drawMask(createCanvas(canvas.w, canvas.h), mask, edgeBlend)
        fgCanvas == drawImageScaled(layer, fg, "source-in")
    IN  drawImage(canvas, fgCanvas, 0, 0, "source-over")

\* the settled promise of compositeImage(bgImage, fgImage, box, maskImage,
\* options); the three loads are awaited outside any try, so a failed load
\* rejects the call
compositeImage(bgImage, fgImage, box, maskImage, options) ==
    LET bg == loadImage(bgImage.base64)
        fg == loadImage(fgImage.base64)
        mask == loadImage(maskImage.base64)
    IN  IF bg.status = "resolved" /\ fg.status = "resolved" /\ mask.status = "resolved"
        THEN [status |-> "resolved",
              value |-> toDataURL(compositeImageCanvas(bg.img, fg.img, box, mask.img,
                                                       options.edgeBlend))]
        ELSE [status |-> "rejected", value |-> NoUrl]

PngSource(url) == [base64 |-> url, mimeType |-> "image/png"]

\* a mask pixel of compositeImage: opaque, half transparent (the edge of a
\* smooth mask) or transparent
AlphaMasks ==
    UNION {{[w |-> d[1], h |-> d[2], px |-> f] :
               f \in [Coords(d[1], d[2]) -> {MaskWhite, <<white, 128>>, Transparent}]}
            : d \in MaskDims}

Boxes == {[x |-> 0, y |-> 0, width |-> 1, height |-> 1],
          [x |-> 1, y |-> 1, width |-> 1, height |-> 1]}

\* foregrounds of the canvas's size, smaller and of another shape
CiForegrounds ==
    {toDataURL(Generated(d[1], d[2], k)) :
        d \in {<<1, 1>>, <<1, MaxDim>>, <<MaxDim, MaxDim>>}, k \in {"opaque", "hole", "veil"}}

CiCalls ==
    {[bgImage |-> PngSource(b), fgImage |-> PngSource(f), box |-> box,
      maskImage |-> PngSource(k), options |-> [edgeBlend |-> e]] :
        b \in OriginalUrls, f \in CiForegrounds, box \in Boxes,
        k \in {toDataURL(a) : a \in AlphaMasks} \cup {BadUrl(3)}, e \in {0, 1}}

NoCiArgs == [bgImage |-> NoSource, fgImage |-> NoSource,
             box |-> [x |-> 0, y |-> 0, width |-> 0, height |-> 0],
             maskImage |-> NoSource, options |-> [edgeBlend |-> 0]]

CiIdle == ciPc = "idle" /\ ciArgs = NoCiArgs /\ ciOut = NoOutcome /\ ciOut2 = NoOutcome

\* compositeImage(bgImage, fgImage, box, maskImage, options) runs to its return
CompositeImage ==
    /\ ciPc = "idle"
    /\ \E c \in CiCalls :
          /\ ciArgs' = c
          /\ ciOut' = compositeImage(c.bgImage, c.fgImage, c.box, c.maskImage, c.options)
    /\ ciPc' = "settled"
    /\ UNCHANGED <<ciOut2, ciFrame>>

\* the same call is made with another box
CompositeImageOtherBox ==
    /\ ciPc = "settled"
    /\ \E box \in Boxes \ {ciArgs.box} :
          ciOut2' = compositeImage(ciArgs.bgImage, ciArgs.fgImage, box, ciArgs.maskImage,
                                   ciArgs.options)
    /\ ciPc' = "compared"
    /\ UNCHANGED <<ciArgs, ciOut, ciFrame>>

---------------------------------------------------------------------------
(* generateImageRest *)

NoImagen == [kind |-> "none", n |-> 0]

\* what the Imagen request may come to: fetch throws, the status is not OK,
\* response.json() throws, the body has no predictions, or it has n of them
ImagenResponses ==
    {[kind |-> k, n |-> 0] : k \in {"threw", "status", "badjson", "empty"}}
        \cup {[kind |-> "predictions", n |-> n] : n \in 1 .. MaxImageCount}

\* what one fallback request may come to: an image read as a data URL, a
\* status that is not OK, a fetch that throws, a FileReader error
FallbackResults == {"image", "status", "threw", "readerror"}

\* a returned data URL, told apart by the service and its place in the answer
ImageFrom(service, i) == [from |-> service, n |-> i]

NoGirOutcome == [status |-> "none", images |-> <<>>]

\* imagenBlock without its return: the predictions are dropped and the call
\* goes on to the fallback requests
imagenBlock_fallthrough(resp) == [returned |-> FALSE, images |-> <<>>]

\* the first try block after the answer: returned says whether the function
\* returns from it, with the predictions mapped to data URLs
imagenBlock(resp) ==
    IF resp.kind = "predictions"
    THEN [returned |-> TRUE, images |-> [i \in 1 .. resp.n |-> ImageFrom("imagen", i)]]
    ELSE [returned |-> FALSE, images |-> <<>>]

\* fallbackBlock with every request caught on its own: the images that were
\* read are kept, the failed ones left out
fallbackBlock_partial(results) ==
    [status |-> "resolved",
     images |-> SelectSeq([i \in DOMAIN results |->
                              IF results[i] = "image"
                              THEN ImageFrom("pollinations", i)
                              ELSE ImageFrom("none", i)],
                          LAMBDA im : im.from = "pollinations")]

\* fallbackBlock without its catch: a failed request rejects the call
fallbackBlock_nocatch(results) ==
    IF \A i \in DOMAIN results : results[i] = "image"
    THEN [status |-> "resolved",
          images |-> [i \in DOMAIN results |-> ImageFrom("pollinations", i)]]
    ELSE [status |-> "rejected", images |-> <<>>]

\* the second try block: Promise.all of the requests, [] from the catch
fallbackBlock(results) ==
    IF \A i \in DOMAIN results : results[i] = "image"
    THEN [status |-> "resolved",
          images |-> [i \in DOMAIN results |-> ImageFrom("pollinations", i)]]
    ELSE [status |-> "resolved", images |-> <<>>]

\* the imageCount fallback requests, all started before any is awaited
fallbackRequests(imageCount) == [i \in 1 .. imageCount |-> "pollinations"]

GirIdle ==
    /\ girPc = "idle" /\ girKey = "" /\ girCount = 0 /\ girSent = <<>>
    /\ girImagen = NoImagen /\ girResults = <<>> /\ girOut = NoGirOutcome

\* generateImageRest(prompt, aspectRatio, imageCount) is called: with a
\* stored key the Imagen request is sent, without one the fallback requests
GenerateImageRest ==
    /\ girPc = "idle"
    /\ \E key \in {"", "key"}, imageCount \in 0 .. MaxImageCount :
          /\ girKey' = key
          /\ girCount' = imageCount
          /\ IF key # ""
             THEN girSent' = <<"imagen">> /\ girPc' = "imagen"
             ELSE girSent' = fallbackRequests(imageCount) /\ girPc' = "fallback"
    /\ UNCHANGED <<girImagen, girResults, girOut, girFrame>>

\* the Imagen request comes to an end: predictions are returned, anything
\* else falls through to the fallback requests
GenerateImageRestImagen ==
    /\ girPc = "imagen"
    /\ \E resp \in ImagenResponses :
          /\ girImagen' = resp
          /\ IF imagenBlock(resp).returned
             THEN /\ girOut' = [status |-> "resolved", images |-> imagenBlock(resp).images]
                  /\ girPc' = "settled"
                  /\ UNCHANGED girSent
             ELSE /\ girSent' = girSent \o fallbackRequests(girCount)
                  /\ girPc' = "fallback"
                  /\ UNCHANGED girOut
    /\ UNCHANGED <<girKey, girCount, girResults, girFrame>>

\* the fallback requests come to an end
GenerateImageRestFallback ==
    /\ girPc = "fallback"
    /\ \E results \in [1 .. girCount -> FallbackResults] :
          /\ girResults' = results
          /\ girOut' = fallbackBlock(results)
    /\ girPc' = "settled"
    /\ UNCHANGED <<girKey, girCount, girSent, girImagen, girFrame>>

---------------------------------------------------------------------------
(* strictComposite and compositeImage, step by step, two calls at a time *)

\* a call and a sibling call issued while it runs
Siblings == {1, 2}

\* the names of the images a call loads
LoadNames == {"orig", "gen", "mask", "bg", "fg"}

NoCcArgs == [first |-> NoUrl, second |-> NoUrl, mask |-> NoUrl]
NoCcLocals == [v \in LoadNames |-> NoImage]

\* the arguments of the calls: first is the original or the background,
\* second the candidate or the foreground
CcCalls ==
    {[first |-> toDataURL(Photo(d[1], 1)), second |-> toDataURL(Generated(e[1], 1, e[2])),
      mask |-> k] :
        d \in {<<1>>, <<2>>}, e \in {<<1, "opaque">>, <<2, "veil">>},
        k \in {toDataURL([w |-> 1, h |-> 1, px |-> [p \in Coords(1, 1) |-> MaskWhite]]),
               toDataURL([w |-> 2, h |-> 1,
                          px |-> [p \in Coords(2, 1) |->
                                     IF p[1] = 0 THEN MaskWhite ELSE Transparent]]),
               BadUrl(3)}}

\* the box and the options of the compositeImage calls
CcBox == [x |-> 0, y |-> 0, width |-> 1, height |-> 1]
CcOptions == [edgeBlend |-> 0]

\* the string a call loads under a name
CcUrl(i, v) ==
    CASE v \in {"orig", "bg"} -> ccArgs[i].first
      [] v \in {"gen", "fg"} -> ccArgs[i].second
      [] v = "mask" -> ccArgs[i].mask

\* localsOf with one frame for all calls, as if orig, gen, mask, bg and fg
\* were variables of the module
localsOf_shared(i) == 1

\* the frame that holds the local constants of call i: each call has its own
localsOf(i) == i

CcIdle ==
    /\ ccPc = [i \in Siblings |-> "idle"]
    /\ ccKind = [i \in Siblings |-> "none"]
    /\ ccArgs = [i \in Siblings |-> NoCcArgs]
    /\ ccPending = [i \in Siblings |-> {}]
    /\ ccQueue = [i \in Siblings |-> <<>>]
    /\ ccLocals = [i \in Siblings |-> NoCcLocals]
    /\ ccOut = [i \in Siblings |-> NoOutcome]
    /\ ccOverlap = FALSE

\* another call is between its first load and its return
CcOtherRunning(i) == \E j \in Siblings \ {i} : ccPc[j] = "loading"

\* strictComposite is called: Promise.all starts the three loads
CcStrictCompositeCall(i) ==
    /\ ccPc[i] = "idle"
    /\ \E c \in CcCalls : ccArgs' = [ccArgs EXCEPT ![i] = c]
    /\ ccKind' = [ccKind EXCEPT ![i] = "strictComposite"]
    /\ ccPending' = [ccPending EXCEPT ![i] = {"orig", "gen", "mask"}]
    /\ ccPc' = [ccPc EXCEPT ![i] = "loading"]
    /\ UNCHANGED <<ccQueue, ccLocals, ccOut, ccOverlap, ccFrame>>

\* compositeImage is called: the load of the background starts, those of the
\* foreground and the mask wait for it
CcCompositeImageCall(i) ==
    /\ ccPc[i] = "idle"
    /\ \E c \in CcCalls : ccArgs' = [ccArgs EXCEPT ![i] = c]
    /\ ccKind' = [ccKind EXCEPT ![i] = "compositeImage"]
    /\ ccPending' = [ccPending EXCEPT ![i] = {"bg"}]
    /\ ccQueue' = [ccQueue EXCEPT ![i] = <<"fg", "mask">>]
    /\ ccPc' = [ccPc EXCEPT ![i] = "loading"]
    /\ UNCHANGED <<ccLocals, ccOut, ccOverlap, ccFrame>>

\* what a call returns from the images its frame holds, when its last load
\* has resolved
CcReturn(i, frame) ==
    IF ccKind[i] = "strictComposite"
    THEN toDataURL(strictCompositeCanvas(frame["orig"], frame["gen"], frame["mask"]))
    ELSE toDataURL(compositeImageCanvas(frame["bg"], frame["fg"], CcBox, frame["mask"],
                                        CcOptions.edgeBlend))

\* a load of call i settles and the call runs on to its next await or to its
\* return: a rejected load ends strictComposite in its catch and rejects
\* compositeImage; a resolved one is kept in the call's frame, the next load
\* of compositeImage starts, and after the last one the canvases are drawn
CcLoadSettles(i) ==
    /\ ccPc[i] = "loading"
    /\ \E v \in ccPending[i] :
          LET loaded == loadImage(CcUrl(i, v))
              frames == [ccLocals EXCEPT ![localsOf(i)][v] = loaded.img]
              last == ccPending[i] = {v} /\ ccQueue[i] = <<>>
          IN  IF loaded.status = "rejected"
              THEN /\ ccOut' = [ccOut EXCEPT ![i] =
                                   IF ccKind[i] = "strictComposite"
                                   THEN [status |-> "resolved", value |-> ccArgs[i].second]
                                   ELSE [status |-> "rejected", value |-> NoUrl]]
                   /\ ccPc' = [ccPc EXCEPT ![i] = "settled"]
                   /\ ccPending' = [ccPending EXCEPT ![i] = {}]
                   /\ UNCHANGED <<ccLocals, ccQueue>>
              ELSE /\ ccLocals' = frames
                   /\ IF last
                      THEN /\ ccOut' = [ccOut EXCEPT ![i] =
                                           [status |-> "resolved",
                                            value |-> CcReturn(i, frames[localsOf(i)])]]
                           /\ ccPc' = [ccPc EXCEPT ![i] = "settled"]
                           /\ ccPending' = [ccPending EXCEPT ![i] = {}]
                           /\ UNCHANGED ccQueue
                      ELSE /\ IF ccPending[i] = {v}
                              THEN /\ ccPending' = [ccPending EXCEPT ![i] = {Head(ccQueue[i])}]
                                   /\ ccQueue' = [ccQueue EXCEPT ![i] = Tail(ccQueue[i])]
                              ELSE /\ ccPending' = [ccPending EXCEPT ![i] = ccPending[i] \ {v}]
                                   /\ UNCHANGED ccQueue
                           /\ UNCHANGED <<ccPc, ccOut>>
    /\ ccOverlap' = (ccOverlap \/ CcOtherRunning(i))
    /\ UNCHANGED <<ccKind, ccArgs, ccFrame>>

---------------------------------------------------------------------------
(* The API key and the client singleton *)

\* localStorage.getItem of an item that is not stored
null == "null"

\* the keys a user enters, and the key a build may define as
\* process.env.API_KEY ("" when it defines none)
UserKeys == {"key1", "key2", "key3"}
EnvKeys == {"", "envkey"}

NoClient == [apiKey |-> null]

\* getStoredApiKey(): the stored item, else process.env.API_KEY, else ''
getStoredApiKey(storage, env) ==
    IF storage # null /\ storage # "" THEN storage
    ELSE IF env # "" THEN env ELSE ""

\* initAI(): the value of ai afterwards; new GoogleGenAI({apiKey: key}) keeps
\* the key it is given
initAI(storage, env) ==
    LET key == getStoredApiKey(storage, env)
    IN  IF key # "" THEN [apiKey |-> key] ELSE NoClient

\* updateGeminiApiKey that leaves the singleton as it was
updateGeminiApiKey_noinit(storage, env, ai, newKey) ==
    [storage |-> IF newKey # "" THEN newKey ELSE null, ai |-> ai]

\* updateGeminiApiKey(newKey): the stored item and ai afterwards
updateGeminiApiKey(storage, env, ai, newKey) ==
    LET stored == IF newKey # "" THEN newKey ELSE null
    IN  [storage |-> stored, ai |-> initAI(stored, env)]

\* the key a remote request carries: generateImageRest reads
\* getStoredApiKey() when it is called, the other requests go through ai and
\* throw "Gemini API Key is not set." when ai is null
RequestKey(kind, storage, env, ai) ==
    IF kind = "rest" THEN getStoredApiKey(storage, env)
    ELSE IF ai = NoClient THEN "" ELSE ai.apiKey

NoKeyRequest == [kind |-> "none", key |-> ""]

AkIdle ==
    /\ akPc = "unloaded" /\ akStorage = null /\ akEnv = "" /\ akAi = NoClient
    /\ akLast = "none" /\ akRequest = NoKeyRequest /\ akUpdates = 0

\* the module is loaded in a page: the build has or has not defined
\* process.env.API_KEY, a key of an earlier visit may be stored, initAI() runs
LoadService ==
    /\ akPc = "unloaded"
    /\ \E env \in EnvKeys, stored \in UserKeys \cup {null} :
          /\ akEnv' = env
          /\ akStorage' = stored
          /\ akAi' = initAI(stored, env)
    /\ akPc' = "loaded"
    /\ UNCHANGED <<akLast, akRequest, akUpdates, akFrame>>

\* updateGeminiApiKey(newKey) (the key dialog of App saves a key)
UpdateGeminiApiKey ==
    /\ akPc = "loaded"
    /\ akUpdates < MaxKeyUpdates
    /\ akUpdates' = akUpdates + 1
    /\ \E newKey \in UserKeys \cup {""} :
          LET after == updateGeminiApiKey(akStorage, akEnv, akAi, newKey)
          IN  /\ akStorage' = after.storage
              /\ akAi' = after.ai
              /\ akLast' = newKey
    /\ UNCHANGED <<akPc, akEnv, akRequest, akFrame>>

\* a remote request is made, through generateImageRest or through ai
RemoteRequest ==
    /\ akPc = "loaded"
    /\ \E kind \in {"rest", "ai"} :
          akRequest' = [kind |-> kind, key |-> RequestKey(kind, akStorage, akEnv, akAi)]
    /\ UNCHANGED <<akPc, akStorage, akEnv, akAi, akLast, akUpdates, akFrame>>

---------------------------------------------------------------------------
(* getActivationCode *)

\* the two numbers of  hash % 900000 + 100000
CodeModulus == 900000
CodeOffset == 100000

\* A 32-bit integer is kept as <<high, low>>, its two 16-bit halves in two's
\* complement, so that no product leaves the range of the checker's integers
Half == 2^16
Int32Zero == <<0, 0>>
IsNegativeInt32(h) == h[1] >= Half \div 2

\* hash = ((hash << 5) - hash) + char; hash = hash & hash: 31 * hash + char
\* brought back to 32 bits
HashStep(h, char) ==
    LET low == 31 * h[2] + char
    IN  <<(31 * h[1] + (low \div Half)) % Half, low % Half>>

\* the for loop over the characters of lowerEmail from index i on
RECURSIVE HashFrom(_, _, _)
HashFrom(s, i, h) == IF i > Len(s) THEN h ELSE HashFrom(s, i + 1, HashStep(h, s[i]))

\* (high * 2^16 + low) mod CodeModulus
UnsignedMod(h) == ((((h[1] * 256) % CodeModulus) * 256) + h[2]) % CodeModulus

\* hash % 900000 as JavaScript computes it: the result has the sign of hash
Remainder(h) ==
    IF IsNegativeInt32(h)
    THEN \* hash = u - 2^32
         0 - ((UnsignedMod(<<Half - 1, Half - 1>>) + 1 + CodeModulus - UnsignedMod(h))
                 % CodeModulus)
    ELSE UnsignedMod(h)

\* String.prototype.toLowerCase and trim on the character codes the model uses
ToLowerCase(s) == [i \in DOMAIN s |-> IF s[i] >= 65 /\ s[i] <= 90 THEN s[i] + 32 ELSE s[i]]
RECURSIVE Trim(_)
Trim(s) ==
    IF s = <<>> THEN s
    ELSE IF Head(s) = 32 THEN Trim(Tail(s))
    ELSE IF s[Len(s)] = 32 THEN Trim(SubSeq(s, 1, Len(s) - 1))
    ELSE s

\* Number.prototype.toString of an integer n >= 0: its decimal digits
RECURSIVE ToDigits(_)
ToDigits(n) == IF n < 10 THEN <<n>> ELSE Append(ToDigits(n \div 10), n % 10)

\* getActivationCode(email): the characters of the string returned
getActivationCode(email) ==
    IF email = <<>> THEN <<0, 0, 0, 0, 0, 0>>
    ELSE LET lowerEmail == Trim(ToLowerCase(email))
             hash == HashFrom(lowerEmail, 1, Int32Zero)
         IN  ToDigits(AbsInt(Remainder(hash) + CodeOffset))

\* the characters of the emails enumerated: a, B, @ and the space
EmailChars == {97, 66, 64, 32}
RECURSIVE EmailsOfLength(_)
EmailsOfLength(n) ==
    IF n = 0 THEN {<<>>}
    ELSE {Append(s, c) : s \in EmailsOfLength(n - 1), c \in EmailChars}
Emails == UNION {EmailsOfLength(n) : n \in 0 .. MaxEmailLen}

AcIdle == acPc = "idle" /\ acEmail = <<>> /\ acCode = <<>>

\* getActivationCode(email) is called and returns
GetActivationCode ==
    /\ acPc = "idle"
    /\ \E email \in Emails :
          /\ acEmail' = email
          /\ acCode' = getActivationCode(email)
    /\ acPc' = "returned"
    /\ UNCHANGED acFrame

---------------------------------------------------------------------------
(* The image editor: the mask editor (InpaintingModal) and handleGenerate *)

\* ctx.fillStyle = colour; ctx.fillRect(0, 0, w, h) under composite
\* operation op
fillRectOp(canvas, w, h, colour, op) ==
    [canvas EXCEPT !.px = [p \in Coords(canvas.w, canvas.h) |->
        IF p[1] < w /\ p[2] < h THEN Blend(op, canvas.px[p], Opaque(colour))
        ELSE canvas.px[p]]]

\* the drawing settings of a fresh 2D context, and those draw() sets for
\* each mode; the brush colour is one channel of activeColor
BrushColour == 239
DefaultCtx == [op |-> "source-over", alpha |-> ChannelMax, style |-> black]
CtxFor(mode, brushOpacity) ==
    IF mode = "eraser"
    THEN [op |-> "destination-out", alpha |-> ChannelMax, style |-> black]
    ELSE [op |-> "source-over", alpha |-> brushOpacity, style |-> BrushColour]

\* ctx.stroke() of a path that covers the pixels in path (a brush footprint
\* is one pixel of the model)
stroke(canvas, path, ctx) ==
    [canvas EXCEPT !.px = [p \in Coords(canvas.w, canvas.h) |->
        IF p \in path THEN Blend(ctx.op, canvas.px[p], <<ctx.style, ctx.alpha>>)
        ELSE canvas.px[p]]]

\* snapshot(): the B/W mask canvas built from the stroke canvas
snapshotCanvas(canvas, width, height) ==
    LET bw0 == createCanvas(width, height)
        bw1 == fillRect(bw0, 0, 0, width, height, black)
        bw2 == drawImage(bw1, canvas, 0, 0, "source-over")
    IN  fillRectOp(bw2, width, height, white, "source-in")

\* snapshot() of the mounted editor: { composite, mask }
snapshot(canvas, width, height, backgroundImage) ==
    [composite |-> backgroundImage,
     mask |-> toDataURL(snapshotCanvas(canvas, width, height))]

\* the pixels that show paint on the stroke canvas: painted and not erased
PaintedPixels(canvas) == {p \in Coords(canvas.w, canvas.h) : canvas.px[p][2] > 0}

\* the values the opacity slider is given: 0.4 (the initial one) and 1
BrushOpacities == {102, ChannelMax}
Modes == {"brush", "eraser"}
EditDims == MaskDims
NoPos == <<0 - 1, 0 - 1>>
NoSnap == [taken |-> FALSE, strokes |-> NoImage, mask |-> NoUrl, isInpainting |-> FALSE]
NoComparison == [before |-> NoUrl, after |-> NoUrl]
NoResultOf == [stored |-> FALSE, strokes |-> NoImage, isInpainting |-> FALSE, result |-> NoUrl]

\* what generateImageWithElements resolves to for an original of w x h: null
\* or images[0]; the remote model may change any pixel
RemoteResults(w, h) ==
    {[null |-> TRUE, url |-> NoUrl]}
    \cup {[null |-> FALSE, url |-> u] :
            u \in {toDataURL(Generated(w, h, k)) : k \in {"opaque", "hole"}}
                  \cup {toDataURL(Photo(w, h)), toDataURL(Generated(1, 1, "opaque")),
                        BadUrl(2)}}

EdIdle ==
    /\ edOriginal = NoUrl /\ edMode = "brush" /\ edOpacity = 102
    /\ edCanvas = NoImage /\ edCtx = DefaultCtx /\ edDrawing = FALSE /\ edLast = NoPos
    /\ edStrokeHistory = <<>> /\ edEvents = 0
    /\ edPc = "idle" /\ edSnap = NoSnap /\ edGenerated = NoUrl
    /\ edHistory = <<>> /\ edComparison = NoComparison /\ edProcessing = FALSE
    /\ edResultOf = NoResultOf

edEditorVars == <<edCanvas, edCtx, edDrawing, edLast, edStrokeHistory>>
edGenerateVars == <<edPc, edSnap, edGenerated, edHistory, edComparison, edProcessing,
                    edResultOf>>

\* processFile: an image is loaded as state.originalImage and the mask editor
\* is mounted on it (its initial effect clears the canvas and saves the blank
\* state); the image is within MAX_CANVAS_WIDTH x MAX_CANVAS_HEIGHT, so the
\* editor canvas has the image's size
ProcessFile ==
    /\ edOriginal = NoUrl
    /\ \E d \in EditDims :
          /\ edOriginal' = toDataURL(Photo(d[1], d[2]))
          /\ edCanvas' = createCanvas(d[1], d[2])
          /\ edStrokeHistory' = <<createCanvas(d[1], d[2])>>
    /\ edCtx' = DefaultCtx /\ edDrawing' = FALSE /\ edLast' = NoPos
    /\ UNCHANGED <<edMode, edOpacity, edEvents, edGenerateVars, edFrame>>

\* the mask editor is mounted once an image is loaded; while isProcessing
\* the loading overlay covers the editor and its toolbar
EditorReachable == edOriginal # NoUrl /\ ~edProcessing

\* the toolbar: setActiveMode and setBrushOpacity
SetActiveMode ==
    /\ EditorReachable /\ edEvents < MaxEditorEvents
    /\ \E m \in Modes \ {edMode} : edMode' = m
    /\ edEvents' = edEvents + 1
    /\ UNCHANGED <<edOriginal, edOpacity, edEditorVars, edGenerateVars, edFrame>>

SetBrushOpacity ==
    /\ EditorReachable /\ edEvents < MaxEditorEvents
    /\ \E o \in BrushOpacities \ {edOpacity} : edOpacity' = o
    /\ edEvents' = edEvents + 1
    /\ UNCHANGED <<edOriginal, edMode, edEditorVars, edGenerateVars, edFrame>>

\* startDrawing: a dot at the pointer, stroked with the settings the context
\* was left with
StartDrawing ==
    /\ EditorReachable /\ edEvents < MaxEditorEvents
    /\ \E p \in Coords(edCanvas.w, edCanvas.h) :
          /\ edCanvas' = stroke(edCanvas, {p}, edCtx)
          /\ edLast' = p
    /\ edDrawing' = TRUE
    /\ edEvents' = edEvents + 1
    /\ UNCHANGED <<edOriginal, edMode, edOpacity, edCtx, edStrokeHistory,
                   edGenerateVars, edFrame>>

\* draw: sets the context for the mode and strokes from lastPos to the pointer
Draw ==
    /\ EditorReachable /\ edDrawing /\ edEvents < MaxEditorEvents
    /\ edCtx' = CtxFor(edMode, edOpacity)
    /\ \E p \in Coords(edCanvas.w, edCanvas.h) :
          /\ edCanvas' = stroke(edCanvas, (IF edLast = NoPos THEN {} ELSE {edLast}) \cup {p},
                                edCtx')
          /\ edLast' = p
    /\ edEvents' = edEvents + 1
    /\ UNCHANGED <<edOriginal, edMode, edOpacity, edDrawing, edStrokeHistory,
                   edGenerateVars, edFrame>>

\* stopDrawing: saves the canvas in the undo history
StopDrawing ==
    /\ EditorReachable /\ edDrawing
    /\ edDrawing' = FALSE /\ edLast' = NoPos
    /\ edStrokeHistory' = Append(edStrokeHistory, edCanvas)
    /\ UNCHANGED <<edOriginal, edMode, edOpacity, edCanvas, edCtx, edEvents,
                   edGenerateVars, edFrame>>

\* undo without its test of history.length: the only state can be dropped,
\* and then there is no previous state to put back
Undo_unguarded ==
    /\ EditorReachable
    /\ edStrokeHistory' = SubSeq(edStrokeHistory, 1, Len(edStrokeHistory) - 1)
    /\ edCanvas' = IF edStrokeHistory' = <<>> THEN edCanvas
                   ELSE edStrokeHistory'[Len(edStrokeHistory')]
    /\ UNCHANGED <<edOriginal, edMode, edOpacity, edCtx, edDrawing, edLast, edEvents,
                   edGenerateVars, edFrame>>

\* undo: with more than one saved state it drops the current one and puts
\* the previous one back, otherwise it does nothing
Undo ==
    /\ EditorReachable
    /\ IF Len(edStrokeHistory) > 1
       THEN /\ edStrokeHistory' = SubSeq(edStrokeHistory, 1, Len(edStrokeHistory) - 1)
            /\ edCanvas' = edStrokeHistory'[Len(edStrokeHistory')]
       ELSE UNCHANGED <<edStrokeHistory, edCanvas>>
    /\ UNCHANGED <<edOriginal, edMode, edOpacity, edCtx, edDrawing, edLast, edEvents,
                   edGenerateVars, edFrame>>

\* clearMask: clears the canvas and saves the blank state
ClearMask ==
    /\ EditorReachable /\ edEvents < MaxEditorEvents
    /\ edCanvas' = createCanvas(edCanvas.w, edCanvas.h)
    /\ edStrokeHistory' = Append(edStrokeHistory, edCanvas')
    /\ edEvents' = edEvents + 1
    /\ UNCHANGED <<edOriginal, edMode, edOpacity, edCtx, edDrawing, edLast,
                   edGenerateVars, edFrame>>

\* step 3 of handleGenerate and what follows it: the new item heads
\* state.history, the comparison is shown, and finally isProcessing is reset
StoreResult(finalResult) ==
    /\ edHistory' = <<[result |-> finalResult, original |-> edOriginal]>> \o edHistory
    /\ edComparison' = [before |-> edOriginal, after |-> finalResult]
    /\ edResultOf' = [stored |-> TRUE, strokes |-> edSnap.strokes,
                      isInpainting |-> edSnap.isInpainting, result |-> finalResult]
    /\ edProcessing' = FALSE
    /\ edPc' = "idle"

\* handleGenerate up to its first await: the snapshot and isInpainting. The
\* length of the mask's data URL depends on the encoder and on the canvas
\* size: both sides of  mask.length > 1000  occur
HandleGenerate ==
    /\ edPc = "idle" /\ edOriginal # NoUrl /\ Len(edHistory) < MaxGenerations
    /\ \E longMask \in BOOLEAN :
          edSnap' = [taken |-> TRUE, strokes |-> edCanvas,
                     mask |-> snapshot(edCanvas, edCanvas.w, edCanvas.h, edOriginal).mask,
                     isInpainting |-> longMask]
    /\ edProcessing' = TRUE
    /\ edPc' = "generating"
    /\ UNCHANGED <<edOriginal, edMode, edOpacity, edEditorVars, edEvents, edGenerated,
                   edHistory, edComparison, edResultOf, edFrame>>

\* generateImageWithElements settles; a rejection goes through catch and
\* finally and leaves the state that null leaves
HandleGenerateGenerated ==
    /\ edPc = "generating"
    /\ \E r \in RemoteResults(edOriginal.img.w, edOriginal.img.h) :
          /\ edGenerated' = r.url
          /\ IF r.null
             THEN /\ edProcessing' = FALSE /\ edPc' = "idle"
                  /\ UNCHANGED <<edHistory, edComparison, edResultOf>>
             ELSE IF edSnap.isInpainting
             THEN /\ edPc' = "compositing"
                  /\ UNCHANGED <<edHistory, edComparison, edResultOf, edProcessing>>
             ELSE StoreResult(r.url)
    /\ UNCHANGED <<edOriginal, edMode, edOpacity, edEditorVars, edEvents, edSnap, edFrame>>

\* strictComposite(state.originalImage, generatedResponse, mask) resolves
HandleGenerateComposited ==
    /\ edPc = "compositing"
    /\ StoreResult(strictComposite(edOriginal, edGenerated, edSnap.mask).value)
    /\ UNCHANGED <<edOriginal, edMode, edOpacity, edEditorVars, edEvents, edSnap,
                   edGenerated, edFrame>>

---------------------------------------------------------------------------
(* The virtual tour (VirtualTourTab) *)

\* the images the user can upload, and the n-th image the remote model makes
\* an image is a pair; NoTourImage stands for null
UploadImages == {<<"upload", 1>>, <<"upload", 2>>}
NoTourImage == <<"none", 0>>
TourImage(n) == <<"generated", n>>
TourEffects == {"night", "rain"}
NoPending == [kind |-> "none", currentImage |-> NoTourImage, effect |-> null]

\* what generateVirtualTourImage and applyEffectToTourImage settle to: a data
\* URL, null, or (the earlier copy, which has no try block) a rejection
TourResults == {"image", "null", "threw"}

\* handleUndo and handleRedo on the state the handler closed over
handleUndo(s) ==
    IF Len(s.undoStack) > 0
    THEN [currentImage |-> s.undoStack[Len(s.undoStack)],
          undoStack |-> SubSeq(s.undoStack, 1, Len(s.undoStack) - 1),
          redoStack |-> <<s.currentImage>> \o s.redoStack]
    ELSE s
handleRedo(s) ==
    IF Len(s.redoStack) > 0
    THEN [currentImage |-> s.redoStack[1],
          undoStack |-> Append(s.undoStack, s.currentImage),
          redoStack |-> Tail(s.redoStack)]
    ELSE s

TourState == [currentImage |-> vtCurrent, undoStack |-> vtUndo, redoStack |-> vtRedo]

VtIdle ==
    /\ vtCurrent = NoTourImage /\ vtUndo = <<>> /\ vtRedo = <<>> /\ vtLoading = FALSE
    /\ vtEffect = null /\ vtPending = NoPending /\ vtGenerated = 0 /\ vtActions = 0
    /\ vtQuiet = FALSE

\* handleImageUpload(image); the upload control is not disabled while loading
HandleImageUpload ==
    /\ vtActions < MaxTourActions
    /\ \E image \in UploadImages : vtCurrent' = image
    /\ vtUndo' = <<>> /\ vtRedo' = <<>> /\ vtEffect' = null
    /\ vtQuiet' = TRUE
    /\ vtActions' = vtActions + 1
    /\ UNCHANGED <<vtLoading, vtPending, vtGenerated, vtFrame>>

\* handleRemoveImage(), offered when an image is shown
HandleRemoveImage ==
    /\ vtActions < MaxTourActions /\ vtCurrent # NoTourImage
    /\ vtCurrent' = NoTourImage
    /\ vtUndo' = <<>> /\ vtRedo' = <<>> /\ vtEffect' = null
    /\ vtQuiet' = TRUE
    /\ vtActions' = vtActions + 1
    /\ UNCHANGED <<vtLoading, vtPending, vtGenerated, vtFrame>>

\* handleNavigate(moveType) up to its await; the camera buttons exist when
\* an image is shown and are disabled while isLoading
HandleNavigate ==
    /\ vtActions < MaxTourActions /\ vtCurrent # NoTourImage /\ ~vtLoading
    /\ vtLoading' = TRUE
    /\ vtPending' = [kind |-> "navigate", currentImage |-> vtCurrent, effect |-> null]
    /\ vtQuiet' = FALSE
    /\ vtActions' = vtActions + 1
    /\ UNCHANGED <<vtCurrent, vtUndo, vtRedo, vtEffect, vtGenerated, vtFrame>>

\* handleApplyEffect(effect) up to its await; it returns when isLoading
HandleApplyEffect ==
    /\ vtActions < MaxTourActions /\ vtCurrent # NoTourImage /\ ~vtLoading
    /\ \E effect \in TourEffects :
          /\ vtEffect' = effect
          /\ vtPending' = [kind |-> "effect", currentImage |-> vtCurrent, effect |-> effect]
    /\ vtLoading' = TRUE
    /\ vtQuiet' = FALSE
    /\ vtActions' = vtActions + 1
    /\ UNCHANGED <<vtCurrent, vtUndo, vtRedo, vtGenerated, vtFrame>>

\* the awaited request settles: the rest of handleNavigate or of
\* handleApplyEffect, with the currentImage of the render that started it
TourRequestSettles ==
    /\ vtPending.kind # "none"
    /\ \E r \in TourResults :
          IF r = "image"
          THEN /\ vtUndo' = Append(vtUndo, vtPending.currentImage)
               /\ vtCurrent' = TourImage(vtGenerated + 1)
               /\ vtRedo' = <<>>
               /\ vtGenerated' = vtGenerated + 1
               /\ vtEffect' = IF vtPending.kind = "navigate" THEN null ELSE vtEffect
          ELSE /\ vtEffect' = IF vtPending.kind = "effect" THEN null ELSE vtEffect
               /\ UNCHANGED <<vtCurrent, vtUndo, vtRedo, vtGenerated>>
    /\ vtLoading' = FALSE
    /\ vtPending' = NoPending
    /\ UNCHANGED <<vtActions, vtQuiet, vtFrame>>

\* handleUndo and handleRedo; their buttons are disabled while isLoading
HandleUndo ==
    /\ vtActions < MaxTourActions /\ vtCurrent # NoTourImage /\ ~vtLoading /\ Len(vtUndo) > 0
    /\ vtCurrent' = handleUndo(TourState).currentImage
    /\ vtUndo' = handleUndo(TourState).undoStack
    /\ vtRedo' = handleUndo(TourState).redoStack
    /\ vtEffect' = null
    /\ vtQuiet' = FALSE
    /\ vtActions' = vtActions + 1
    /\ UNCHANGED <<vtLoading, vtPending, vtGenerated, vtFrame>>

HandleRedo ==
    /\ vtActions < MaxTourActions /\ vtCurrent # NoTourImage /\ ~vtLoading /\ Len(vtRedo) > 0
    /\ vtCurrent' = handleRedo(TourState).currentImage
    /\ vtUndo' = handleRedo(TourState).undoStack
    /\ vtRedo' = handleRedo(TourState).redoStack
    /\ vtEffect' = null
    /\ vtQuiet' = FALSE
    /\ vtActions' = vtActions + 1
    /\ UNCHANGED <<vtLoading, vtPending, vtGenerated, vtFrame>>

---------------------------------------------------------------------------
(* App: the render tabs, handleGeneration and the history lists *)

RENDER_HISTORY_LIMIT == 5
EDIT_HISTORY_LIMIT == 3

RenderTabs == {"exterior", "interior", "masterplan", "floorplan"}
AppTabs == RenderTabs \cup {"virtual_tour", "edit", "utilities"}
isRenderTab(tab) == tab \in RenderTabs
\* the tabs whose panel has a button that calls handleGeneration
GenerationTabs == {"exterior", "interior", "floorplan"}

OtherHistories == {"edit", "utilities", "presentationBoard", "diagram"}
HistoryLimit(name) == IF name = "edit" THEN EDIT_HISTORY_LIMIT ELSE RENDER_HISTORY_LIMIT

initialTabState == [sourceImage |-> null, generatedImages |-> <<>>, selectedImageIndex |-> 0]

\* the images of one generation: n data URLs made for renderType
ImagesOf(renderType, n) == [i \in 1 .. n |-> <<renderType, i>>]
\* what generateImages settles to: a list of images (it may be empty) or a
\* rejection
GenerationResults ==
    {[threw |-> FALSE, count |-> n] : n \in {0, 2}} \cup {[threw |-> TRUE, count |-> 0]}

\* updateActiveTabState(update) of the render in which activeTab was tab;
\* update gives the fields to overwrite
updateActiveTabState(tabStates, tab, renderType, update) ==
    IF isRenderTab(tab)
    THEN [tabStates EXCEPT ![tab] =
            [f \in DOMAIN initialTabState |->
                IF f \in DOMAIN update THEN update[f] ELSE tabStates[tab][f]]]
    ELSE tabStates

\* [newHistoryItem, ...prev].slice(0, limit); Date.now() is the item's
\* ordinal in its list
Min(a, b) == IF a < b THEN a ELSE b
NewHistoryItem(prev, images) ==
    [id |-> IF prev = <<>> THEN 1 ELSE prev[1].id + 1, images |-> images]
addHistory_unbounded(prev, images, limit) ==
    <<NewHistoryItem(prev, images)>> \o prev
addHistory(prev, images, limit) ==
    SubSeq(<<NewHistoryItem(prev, images)>> \o prev, 1, Min(limit, Len(prev) + 1))

NoGeneration == [renderType |-> null, tab |-> null]
NoImages == [threw |-> FALSE, images |-> <<>>]

ApIdle ==
    /\ apActiveTab = "exterior" /\ apCallbackTab = "exterior"
    /\ apTabStates = [t \in RenderTabs |-> initialTabState]
    /\ apLoading = FALSE /\ apPending = NoGeneration /\ apOut = NoImages
    /\ apHistory = [h \in RenderTabs |-> <<>>]
    /\ apActions = 0

HsIdle == hsHistory = [h \in OtherHistories |-> <<>>] /\ hsBatches = 0

\* a tab button: setActiveTab(tab). handleGeneration is memoised on
\* [tabStates, numImages, aspectRatio, ...], not on activeTab, so it keeps
\* the updateActiveTabState of the render that created it
SetActiveTab ==
    /\ apActions < MaxAppActions
    /\ \E tab \in AppTabs \ {apActiveTab} : apActiveTab' = tab
    /\ apActions' = apActions + 1
    /\ UNCHANGED <<apCallbackTab, apTabStates, apLoading, apPending, apOut, apHistory,
                   apFrame>>

\* ImageUpload of the active tab's panel: the tab restarts from the uploaded
\* image; tabStates changes, so the next render re-creates handleGeneration
OnImageUpload ==
    /\ apActions < MaxAppActions /\ apActiveTab \in GenerationTabs
    /\ apTabStates' = [apTabStates EXCEPT ![apActiveTab] =
                          [initialTabState EXCEPT !.sourceImage = "source"]]
    /\ apCallbackTab' = apActiveTab
    /\ apActions' = apActions + 1
    /\ UNCHANGED <<apActiveTab, apLoading, apPending, apOut, apHistory, apFrame>>

\* onSelectImageIndex(index), memoised on [activeTab]
OnSelectImageIndex ==
    /\ apActions < MaxAppActions /\ isRenderTab(apActiveTab)
    /\ \E index \in 0 .. (Len(apTabStates[apActiveTab].generatedImages) - 1) :
          /\ index # apTabStates[apActiveTab].selectedImageIndex
          /\ apTabStates' = updateActiveTabState(apTabStates, apActiveTab, apActiveTab,
                                                 [selectedImageIndex |-> index])
    /\ apCallbackTab' = apActiveTab
    /\ apActions' = apActions + 1
    /\ UNCHANGED <<apActiveTab, apLoading, apPending, apOut, apHistory, apFrame>>

\* handleGeneration(prompt, renderType, isAnglePrompt) up to its await, from
\* the button of the panel shown (disabled while busy); it returns at once
\* without an image to render
HandleGeneration ==
    /\ apActions < MaxAppActions /\ ~apLoading
    /\ apActiveTab \in GenerationTabs
    /\ apTabStates[apActiveTab].sourceImage # null
    /\ apLoading' = TRUE
    /\ apTabStates' = updateActiveTabState(apTabStates, apCallbackTab, apActiveTab,
                          [generatedImages |-> <<>>, selectedImageIndex |-> 0])
    /\ apPending' = [renderType |-> apActiveTab, tab |-> apCallbackTab]
    /\ apCallbackTab' = IF isRenderTab(apCallbackTab) THEN apActiveTab ELSE apCallbackTab
    /\ apActions' = apActions + 1
    /\ UNCHANGED <<apActiveTab, apOut, apHistory, apFrame>>

\* handleGeneration with setIsLoading(false) at the end of the try block
\* instead of in finally: a rejection leaves the flag set
GenerationSettles_nofinally ==
    /\ apPending # NoGeneration
    /\ \E r \in GenerationResults :
          LET images == ImagesOf(apPending.renderType, r.count)
          IN  /\ apOut' = [threw |-> r.threw, images |-> images]
              /\ IF r.threw
                 THEN UNCHANGED <<apTabStates, apHistory, apCallbackTab, apLoading>>
                 ELSE /\ apTabStates' = updateActiveTabState(apTabStates, apPending.tab,
                                            apPending.renderType, [generatedImages |-> images])
                      /\ apHistory' = [apHistory EXCEPT ![apPending.renderType] =
                                          addHistory(@, images, RENDER_HISTORY_LIMIT)]
                      /\ apCallbackTab' = IF isRenderTab(apPending.tab) THEN apActiveTab
                                          ELSE apCallbackTab
                      /\ apLoading' = FALSE
    /\ apPending' = NoGeneration
    /\ UNCHANGED <<apActiveTab, apActions, apFrame>>

\* generateImages settles: the rest of handleGeneration
GenerationSettles ==
    /\ apPending # NoGeneration
    /\ \E r \in GenerationResults :
          LET images == ImagesOf(apPending.renderType, r.count)
          IN  /\ apOut' = [threw |-> r.threw, images |-> images]
              /\ IF r.threw
                 THEN UNCHANGED <<apTabStates, apHistory, apCallbackTab>>
                 ELSE /\ apTabStates' = updateActiveTabState(apTabStates, apPending.tab,
                                            apPending.renderType, [generatedImages |-> images])
                      /\ apHistory' = [apHistory EXCEPT ![apPending.renderType] =
                                          addHistory(@, images, RENDER_HISTORY_LIMIT)]
                      /\ apCallbackTab' = IF isRenderTab(apPending.tab) THEN apActiveTab
                                          ELSE apCallbackTab
    /\ apLoading' = FALSE
    /\ apPending' = NoGeneration
    /\ UNCHANGED <<apActiveTab, apActions, apFrame>>

\* onGenerationComplete of MasterplanTo3D
OnMasterplanGenerationComplete ==
    /\ apActions < MaxAppActions
    /\ apHistory' = [apHistory EXCEPT !["masterplan"] =
                        addHistory(@, ImagesOf("masterplan", 1), RENDER_HISTORY_LIMIT)]
    /\ apActions' = apActions + 1
    /\ UNCHANGED <<apActiveTab, apCallbackTab, apTabStates, apLoading, apPending, apOut,
                   apFrame>>

\* handleEditComplete(details), called by the image editor
HandleEditComplete ==
    /\ hsBatches < MaxBatches
    /\ hsHistory' = [hsHistory EXCEPT !["edit"] =
                        addHistory(@, ImagesOf("edit", 1), EDIT_HISTORY_LIMIT)]
    /\ hsBatches' = hsBatches + 1
    /\ UNCHANGED hsFrame

\* handleUtilityGenerationComplete(prompt, images): the prompt may name a
\* presentation board, a diagram, both or neither
HandleUtilityGenerationComplete ==
    /\ hsBatches < MaxBatches
    /\ \E isPresentationBoardPrompt \in BOOLEAN, isDiagramPrompt \in BOOLEAN :
          hsHistory' = [h \in OtherHistories |->
              IF \/ h = "utilities"
                 \/ h = "presentationBoard" /\ isPresentationBoardPrompt
                 \/ h = "diagram" /\ isDiagramPrompt
              THEN addHistory(hsHistory[h], ImagesOf("utilities", 1), RENDER_HISTORY_LIMIT)
              ELSE hsHistory[h]]
    /\ hsBatches' = hsBatches + 1
    /\ UNCHANGED hsFrame

---------------------------------------------------------------------------
(* ExpandUtility: the padding preview and handleGenerate *)

\* the images the user may pick: small photos that load and a file that the
\* browser cannot decode
ExpandSources == {toDataURL(Photo(1, 1)), toDataURL(Photo(2, 1)), BadUrl(5)}

\* entries of the ratios table of the select control
ExpandRatios == {<<16, 9>>, <<1, 1>>, <<9, 16>>}

NoPreview == [source |-> NoUrl, ratio |-> <<0, 1>>, value |-> NoUrl]

\* what outpaintImage may come to
ExpandResults == {"image", "null", "threw"}

\* the cleanup of the running effect: isMounted = false in its closure
cleanupEffects(runs) == [i \in DOMAIN runs |-> [runs[i] EXCEPT !.isMounted = FALSE]]

\* the effect on [sourceImage, aspectRatio] re-runs: the previous closure is
\* cleaned up; without a source the preview is set to null at once, with one
\* a computation for this selection is started
startPreviewEffect(runs, source, ratio, preview) ==
    IF source = NoUrl
    THEN [runs |-> cleanupEffects(runs), preview |-> NoPreview]
    ELSE [runs |-> Append(cleanupEffects(runs),
                          [source |-> source, ratio |-> ratio, isMounted |-> TRUE]),
          preview |-> preview]

\* the continuation of generatePreview after the await: a padded image is
\* stored when the closure is still mounted, a rejection is only logged
previewAfter(run, preview) ==
    LET padded == padImageToAspectRatioWithColor(run.source, run.ratio, white)
    IN  IF padded.status = "resolved" /\ run.isMounted
        THEN [source |-> run.source, ratio |-> run.ratio, value |-> padded.value]
        ELSE preview

ExIdle ==
    /\ exSource = NoUrl /\ exRatio = <<16, 9>> /\ exPreview = NoPreview
    /\ exRuns = <<>> /\ exLoading = FALSE /\ exPending = FALSE
    /\ exResult = "none" /\ exActions = 0

\* onImageUpload of the ImageUpload control: setSourceImage(img),
\* setResultImage(null); the effect runs for the new source
ExpandImageUpload ==
    /\ exActions < MaxExpandActions
    /\ \E img \in ExpandSources :
          LET e == startPreviewEffect(exRuns, img, exRatio, exPreview)
          IN  /\ exSource' = img
              /\ exRuns' = e.runs
              /\ exPreview' = e.preview
    /\ exResult' = "none"
    /\ exActions' = exActions + 1
    /\ UNCHANGED <<exRatio, exLoading, exPending, exFrame>>

\* onRemove: the source, the result and the preview are set to null
ExpandRemove ==
    /\ exActions < MaxExpandActions
    /\ exSource # NoUrl
    /\ LET e == startPreviewEffect(exRuns, NoUrl, exRatio, NoPreview)
       IN  exRuns' = e.runs /\ exPreview' = e.preview
    /\ exSource' = NoUrl
    /\ exResult' = "none"
    /\ exActions' = exActions + 1
    /\ UNCHANGED <<exRatio, exLoading, exPending, exFrame>>

\* onChange of the select control: another ratio re-runs the effect
ExpandSetAspectRatio ==
    /\ exActions < MaxExpandActions
    /\ \E r \in ExpandRatios \ {exRatio} :
          LET e == startPreviewEffect(exRuns, exSource, r, exPreview)
          IN  /\ exRatio' = r
              /\ exRuns' = e.runs
              /\ exPreview' = e.preview
    /\ exResult' = "none"
    /\ exActions' = exActions + 1
    /\ UNCHANGED <<exSource, exLoading, exPending, exFrame>>

\* a preview computation settles, in any order with the others
ExpandPreviewSettles ==
    /\ \E i \in DOMAIN exRuns :
          /\ exPreview' = previewAfter(exRuns[i], exPreview)
          /\ exRuns' = SubSeq(exRuns, 1, i - 1) \o SubSeq(exRuns, i + 1, Len(exRuns))
    /\ UNCHANGED <<exSource, exRatio, exLoading, exPending, exResult, exActions, exFrame>>

\* handleGenerate of ExpandUtility up to its await (the button is disabled
\* while isLoading or without a source)
ExpandHandleGenerate ==
    /\ exActions < MaxExpandActions
    /\ ~exLoading /\ exSource # NoUrl
    /\ exLoading' = TRUE
    /\ exResult' = "none"
    /\ exPending' = TRUE
    /\ exActions' = exActions + 1
    /\ UNCHANGED <<exSource, exRatio, exPreview, exRuns, exFrame>>

\* outpaintImage settles: a result is stored, null is thrown into the catch,
\* a rejection is caught; finally clears isLoading
ExpandGenerationSettles ==
    /\ exPending
    /\ \E res \in ExpandResults :
          exResult' = IF res = "image" THEN "image" ELSE exResult
    /\ exPending' = FALSE
    /\ exLoading' = FALSE
    /\ UNCHANGED <<exSource, exRatio, exPreview, exRuns, exActions, exFrame>>

---------------------------------------------------------------------------
(* sourceImageToDataUrl and dataUrlToSourceImage, character by character *)

\* strings are sequences of characters here, so that they can be split and
\* matched
DataColon == <<"d", "a", "t", "a", ":">>
Base64Comma == <<";", "b", "a", "s", "e", "6", "4", ",">>
LineTerminators == {"\n", "\r"}

\* the characters of the enumerated media types and payloads
MimeChars == {"i", "/", ":", ";", ",", "\n"}
PayloadChars == {"A", "=", ","}

\* all sequences over chars of length up to n
StringsUpTo(chars, n) == UNION {[1 .. k -> chars] : k \in 0 .. n}

\* the value null, and undefined for a missing element of a split
Null == [null |-> TRUE, base64 |-> <<>>, mimeType |-> <<>>]
Undefined == <<"undefined">>

\* a value that an if takes as false: undefined or the empty string
Falsy(s) == s = Undefined \/ s = <<>>

\* `data:${image.mimeType};base64,${image.base64}`
sourceImageToDataUrl(image) == DataColon \o image.mimeType \o Base64Comma \o image.base64

\* the places of character c in s
IndicesOf(s, c) == {i \in DOMAIN s : s[i] = c}

SetMin(S) == CHOOSE x \in S : \A y \in S : x <= y
SetMax(S) == CHOOSE x \in S : \A y \in S : y <= x

\* element k (from 0) of s.split(','), undefined when there is none
SplitAt(s, k) ==
    LET commas == IndicesOf(s, ",")
        Nth(j) == CHOOSE i \in commas : Cardinality({c \in commas : c < i}) = j - 1
        from == IF k = 0 THEN 1 ELSE Nth(k) + 1
        to == IF Cardinality(commas) > k THEN Nth(k + 1) - 1 ELSE Len(s)
    IN  IF k > Cardinality(commas) THEN Undefined ELSE SubSeq(s, from, to)

\* the colons of s from which /:(.*?);/ matches: a semicolon follows and no
\* line terminator lies before the first one
MatchStarts(s) ==
    {i \in IndicesOf(s, ":") :
        \E j \in IndicesOf(s, ";") :
            /\ j > i
            /\ \A k \in (i + 1) .. (j - 1) : s[k] \notin LineTerminators \cup {";"}}

\* the group of the match that starts at colon i: up to the next semicolon
GroupFrom(s, i) == SubSeq(s, i + 1, SetMin({j \in IndicesOf(s, ";") : j > i}) - 1)

\* the match taken from the last colon instead of the first
matchMimeType_lastColon(header) ==
    IF MatchStarts(header) = {} THEN Undefined
    ELSE GroupFrom(header, SetMax(MatchStarts(header)))

\* header.match(/:(.*?);/)?.[1]: the leftmost match, its group the shortest
matchMimeType(header) ==
    IF MatchStarts(header) = {} THEN Undefined
    ELSE GroupFrom(header, SetMin(MatchStarts(header)))

dataUrlToSourceImage(dataUrl) ==
    IF Falsy(dataUrl) THEN Null
    ELSE LET header == SplitAt(dataUrl, 0)
             base64Data == SplitAt(dataUrl, 1)
             mimeType == matchMimeType(header)
         IN  IF Falsy(base64Data) \/ Falsy(mimeType) THEN Null
             ELSE [null |-> FALSE, base64 |-> base64Data, mimeType |-> mimeType]

NoSourceImage == [base64 |-> <<>>, mimeType |-> <<>>]

\* the enumerated SourceImage values
SourceImages ==
    {[base64 |-> b, mimeType |-> t] :
        b \in StringsUpTo(PayloadChars, MaxPayloadLen), t \in StringsUpTo(MimeChars, MaxMimeLen)}

DuIdle == duPc = "idle" /\ duImage = NoSourceImage /\ duUrl = <<>> /\ duBack = Null

\* sourceImageToDataUrl(image) is called
SourceImageToDataUrl ==
    /\ duPc = "idle"
    /\ \E image \in SourceImages :
          /\ duImage' = image
          /\ duUrl' = sourceImageToDataUrl(image)
    /\ duPc' = "formatted"
    /\ UNCHANGED <<duBack, duFrame>>

\* dataUrlToSourceImage is called with the string
DataUrlToSourceImage ==
    /\ duPc = "formatted"
    /\ duBack' = dataUrlToSourceImage(duUrl)
    /\ duPc' = "parsed"
    /\ UNCHANGED <<duImage, duUrl, duFrame>>

---------------------------------------------------------------------------
(* Specifications: one per function, each from the same initial state *)

Init ==
    /\ ScIdle /\ PadIdle /\ OpIdle /\ GcaIdle /\ CrIdle /\ CiIdle /\ GirIdle /\ CcIdle
    /\ AkIdle /\ AcIdle /\ EdIdle
    /\ VtIdle
    /\ ApIdle
    /\ HsIdle
    /\ ExIdle
    /\ DuIdle

NextRest == GenerateImageRest \/ GenerateImageRestImagen \/ GenerateImageRestFallback
SpecRest == Init /\ [][NextRest]_vars

NextCompositeImage == CompositeImage \/ CompositeImageOtherBox
SpecCompositeImage == Init /\ [][NextCompositeImage]_vars

NextCrop == CropImageCall \/ CropImageSettle
SpecCrop == Init /\ [][NextCrop]_vars

NextComposite == StrictCompositeCall \/ StrictCompositeSettle
SpecComposite == Init /\ [][NextComposite]_vars

NextPad == PadImage \/ PadAgain
SpecPad == Init /\ [][NextPad]_vars

NextOutpaint ==
    \/ OutpaintImage
    \/ OutpaintImageReturn
    \/ OutpaintImageCanvas
    \/ OutpaintImageCanvasReturn
SpecOutpaint == Init /\ [][NextOutpaint]_vars

NextRatio == GetClosestAspectRatioCall \/ GetClosestAspectRatioSettle
SpecRatio == Init /\ [][NextRatio]_vars

NextConcurrent ==
    \E i \in Siblings :
        \/ CcStrictCompositeCall(i)
        \/ CcCompositeImageCall(i)
        \/ CcLoadSettles(i)
SpecConcurrent == Init /\ [][NextConcurrent]_vars

NextApiKey == LoadService \/ UpdateGeminiApiKey \/ RemoteRequest
SpecApiKey == Init /\ [][NextApiKey]_vars

NextActivation == GetActivationCode
SpecActivation == Init /\ [][NextActivation]_vars

NextEditor ==
    \/ ProcessFile \/ SetActiveMode \/ SetBrushOpacity
    \/ StartDrawing \/ Draw \/ StopDrawing \/ Undo \/ ClearMask
    \/ HandleGenerate \/ HandleGenerateGenerated \/ HandleGenerateComposited
SpecEditor == Init /\ [][NextEditor]_vars

NextTour ==
    \/ HandleImageUpload \/ HandleRemoveImage \/ HandleNavigate \/ HandleApplyEffect
    \/ TourRequestSettles \/ HandleUndo \/ HandleRedo
SpecTour == Init /\ [][NextTour]_vars

NextApp ==
    \/ SetActiveTab \/ OnImageUpload \/ OnSelectImageIndex
    \/ HandleGeneration \/ GenerationSettles \/ OnMasterplanGenerationComplete
SpecApp == Init /\ [][NextApp]_vars

NextOtherHistory == HandleEditComplete \/ HandleUtilityGenerationComplete
\* the history lists are separate states of the App: the render tabs and the
\* other lists are each run alone
NextHistory == (HsIdle /\ NextApp) \/ (ApIdle /\ NextOtherHistory)
SpecHistory == Init /\ [][NextHistory]_vars

NextExpand ==
    \/ ExpandImageUpload \/ ExpandRemove \/ ExpandSetAspectRatio
    \/ ExpandPreviewSettles \/ ExpandHandleGenerate \/ ExpandGenerationSettles
SpecExpand == Init /\ [][NextExpand]_vars

NextMask ==
    \/ ProcessFile \/ SetActiveMode \/ SetBrushOpacity
    \/ StartDrawing \/ Draw \/ StopDrawing \/ Undo \/ ClearMask
SpecMask == Init /\ [][NextMask]_vars

NextDataUrl == SourceImageToDataUrl \/ DataUrlToSourceImage
SpecDataUrl == Init /\ [][NextDataUrl]_vars

\* the generation handlers of the four components, one component at a time,
\* with the handlers that make them reachable. Of the image editor only the
\* loading of an image and handleGenerate are taken (its other handlers are
\* unreachable while isProcessing), of the App the tab buttons, the upload
\* and handleGeneration, up to MaxBusyActions of them
NextEditorBusy ==
    \/ ProcessFile \/ HandleGenerate \/ HandleGenerateGenerated
    \/ HandleGenerateComposited
NextAppBusy ==
    \/ (apActions < MaxBusyActions /\ (SetActiveTab \/ OnImageUpload \/ HandleGeneration))
    \/ GenerationSettles
NextBusy ==
    \/ (VtIdle /\ ExIdle /\ EdIdle /\ NextAppBusy)
    \/ (ApIdle /\ ExIdle /\ EdIdle /\ NextTour)
    \/ (ApIdle /\ VtIdle /\ EdIdle /\ NextExpand)
    \/ (ApIdle /\ VtIdle /\ ExIdle /\ NextEditorBusy)

\* every awaited call settles: fetch, the image loads and the FileReader
\* each end with a result or an error
RequestsSettle ==
    /\ WF_vars(GenerationSettles)
    /\ WF_vars(TourRequestSettles)
    /\ WF_vars(ExpandGenerationSettles)
    /\ WF_vars(HandleGenerateGenerated)
    /\ WF_vars(HandleGenerateComposited)
SpecBusy == Init /\ [][NextBusy]_vars /\ RequestsSettle

Next ==
    \/ NextComposite \/ NextPad \/ NextOutpaint \/ NextRatio \/ NextCrop
    \/ NextCompositeImage \/ NextRest \/ NextConcurrent \/ NextApiKey
    \/ NextActivation \/ NextEditor
    \/ NextTour
    \/ NextApp
    \/ NextOtherHistory
    \/ NextExpand
    \/ NextDataUrl
Spec == Init /\ [][Next]_vars

---------------------------------------------------------------------------
(* Properties of strictComposite *)

ScSettled == scPc = "settled"
\* all three arguments decode
ScLoaded == scArgs.originalB64.ok /\ scArgs.generatedB64.ok /\ scArgs.maskB64.ok
ScOrig == scArgs.originalB64.img
ScGen == scArgs.generatedB64.img
ScMask == scArgs.maskB64.img
ScResult == scOut.value.img
\* the candidate and the mask stretched to the original's dimensions
ScGenAt(p) == StretchedPixel(ScGen, ScOrig.w, ScOrig.h, p[1], p[2])
ScMaskAt(p) == StretchedPixel(ScMask, ScOrig.w, ScOrig.h, p[1], p[2])
ScCoords == Coords(ScOrig.w, ScOrig.h)

\* black: zero luminance (opaque black) or zero alpha (transparent)
IsBlack(p) == p[1] = 0
IsWhite(p) == p = Opaque(white)
IsOpaque(p) == p[2] = ChannelMax

ScSameDims == ScResult.w = ScOrig.w /\ ScResult.h = ScOrig.h

\* C1: the result of strictComposite has the original's dimensions, equals
\* the original at every pixel where the mask is black and equals the
\* stretched candidate at every pixel where the mask is white.
C1_CompositeFollowsMask ==
    (ScSettled /\ ScLoaded) =>
        /\ ScSameDims
        /\ \A p \in ScCoords :
              /\ IsBlack(ScMaskAt(p)) => ScResult.px[p] = ScOrig.px[p]
              /\ IsWhite(ScMaskAt(p)) => ScResult.px[p] = ScGenAt(p)

\* C2: when every mask pixel is black, by zero alpha or by zero luminance,
\* the result is pixel-identical to the original.
C2_BlackMaskKeepsOriginal ==
    (ScSettled /\ ScLoaded /\ \A q \in DOMAIN ScMask.px : IsBlack(ScMask.px[q])) =>
        ScResult = ScOrig

ScMaskAllWhite == \A q \in DOMAIN ScMask.px : IsWhite(ScMask.px[q])

\* C3 as stated: when every mask pixel is white, the result is pixel-identical
\* to the candidate stretched to the original's dimensions, for every
\* original and every candidate.
C3_WhiteMaskGivesCandidate ==
    (ScSettled /\ ScLoaded /\ ScMaskAllWhite) =>
        /\ ScSameDims
        /\ \A p \in ScCoords : ScResult.px[p] = ScGenAt(p)

\* C3 amended: when every mask pixel is white, the result has the original's
\* dimensions and equals the stretched candidate at every pixel where the
\* candidate is opaque; where the candidate is fully transparent the
\* original shows through.
C3_WhiteMaskGivesOpaqueCandidate ==
    (ScSettled /\ ScLoaded /\ ScMaskAllWhite) =>
        /\ ScSameDims
        /\ \A p \in ScCoords :
              /\ IsOpaque(ScGenAt(p)) => ScResult.px[p] = ScGenAt(p)
              /\ ScGenAt(p) = Transparent => ScResult.px[p] = ScOrig.px[p]

\* an all-white mask over an opaque candidate whose size differs from the
\* original's, so that the candidate is really stretched
C3_Witness ==
    /\ ScSettled /\ ScLoaded /\ ScMaskAllWhite
    /\ \A q \in DOMAIN ScGen.px : IsOpaque(ScGen.px[q])
    /\ ScGen.w < ScOrig.w /\ ScGen.h < ScOrig.h
    /\ ScMask.w # ScOrig.w

\* C4: strictComposite never rejects, and when one of its three inputs does
\* not load it resolves with the candidate string as it was passed in.
C4_NeverRejects ==
    ScSettled =>
        /\ scOut.status = "resolved"
        /\ ~ScLoaded => scOut.value = scArgs.generatedB64

\* a call whose mask does not load although original and candidate do
C4_Witness ==
    /\ ScSettled
    /\ scArgs.originalB64.ok /\ scArgs.generatedB64.ok /\ ~scArgs.maskB64.ok
    /\ scOut.value = scArgs.generatedB64

---------------------------------------------------------------------------
(* Properties of outpaintImage *)

OpSource == opArgs.sourceImage.img
\* the geometry padToAspectRatio gives for the call's source and ratio
OpGeometry == PadGeometry(OpSource.w, OpSource.h, opArgs.targetAspectRatio)
InSourceRect(p, g, img) ==
    p[1] >= g.dx /\ p[1] < g.dx + img.w /\ p[2] >= g.dy /\ p[2] < g.dy + img.h

\* C5: when the remote fill returns a candidate, the result of outpaintImage
\* has the padded canvas's dimensions and equals the source at every pixel
\* of the rectangle (dx, dy, sourceWidth, sourceHeight).
C5_OutpaintKeepsSource ==
    (opPc = "settled" /\ opArgs.sourceImage.ok
        /\ opResponse.kind = "image" /\ opResponse.image.ok) =>
        /\ opOut.status = "resolved"
        /\ opOut.value.ok
        /\ opOut.value.img.w = OpGeometry.canvasWidth
        /\ opOut.value.img.h = OpGeometry.canvasHeight
        /\ \A p \in Coords(OpSource.w, OpSource.h) :
              PixelAt(opOut.value.img, p[1] + OpGeometry.dx, p[2] + OpGeometry.dy)
                  = OpSource.px[p]

\* C6: the outpainting step builds a padded canvas of the padToAspectRatio
\* geometry with the source at (dx, dy), and a mask of the same dimensions
\* that is black on exactly the source's rectangle and white elsewhere.
C6_OutpaintBuildsCanvasAndMask ==
    (opRequest.sent /\ opArgs.sourceImage.ok) =>
        /\ Len(opRequest.images) = 2
        /\ LET padded == opRequest.images[1].img
               mask == opRequest.images[2].img
               g == OpGeometry
           IN  /\ padded.w = g.canvasWidth /\ padded.h = g.canvasHeight
               /\ mask.w = g.canvasWidth /\ mask.h = g.canvasHeight
               /\ \A p \in Coords(OpSource.w, OpSource.h) :
                     PixelAt(padded, p[1] + g.dx, p[2] + g.dy) = OpSource.px[p]
               /\ \A p \in Coords(g.canvasWidth, g.canvasHeight) :
                     PixelAt(mask, p[1], p[2]) =
                        IF InSourceRect(p, g, OpSource) THEN Opaque(black) ELSE Opaque(white)

---------------------------------------------------------------------------
(* Properties of padImageToAspectRatioWithColor *)

PadSource == padArgs.image.img
PadRatio == padArgs.targetAspectRatio
PadResult == padOut.value.img
\* the call ran and its image loaded
PadDone == padPc # "idle" /\ padOut.status = "resolved"

\* k = Math.round(n / d), said without computing it: k - 1/2 <= n / d < k + 1/2
IsRounded(k, n, d) == 2 * d * k - d <= 2 * n /\ 2 * n < 2 * d * k + d

\* C7: padding is idempotent in dimensions: padding the padded image again
\* to the same ratio leaves width and height unchanged.
C7_PaddingIdempotent ==
    (padPc = "repadded" /\ padOut2.status = "resolved") =>
        /\ padOut2.value.img.w = PadResult.w
        /\ padOut2.value.img.h = PadResult.h

\* C8: the geometry is exactly: if w / h > r the canvas is w x round(w / r)
\* with dx = 0, dy = round((canvasHeight - h) / 2); otherwise it is
\* round(h * r) x h with dy = 0, dx = round((canvasWidth - w) / 2); the
\* result is that canvas with the source drawn at (dx, dy); a 200 x 100
\* source padded to ratio 1 gives 200 x 200 with dx = 0, dy = 50.
C8_PadGeometryExact ==
    PadDone =>
        LET w == PadSource.w
            h == PadSource.h
            g == padLocals
        IN  /\ IF w * PadRatio[2] > h * PadRatio[1]
               THEN /\ g.canvasWidth = w /\ g.dx = 0
                    /\ IsRounded(g.canvasHeight, w * PadRatio[2], PadRatio[1])
                    /\ IsRounded(g.dy, g.canvasHeight - h, 2)
               ELSE /\ g.canvasHeight = h /\ g.dy = 0
                    /\ IsRounded(g.canvasWidth, h * PadRatio[1], PadRatio[2])
                    /\ IsRounded(g.dx, g.canvasWidth - w, 2)
            /\ PadResult.w = g.canvasWidth /\ PadResult.h = g.canvasHeight
            /\ \A p \in Coords(w, h) :
                  PixelAt(PadResult, p[1] + g.dx, p[2] + g.dy) = PadSource.px[p]
            /\ (w = 200 /\ h = 100 /\ PadRatio = <<1, 1>>) =>
                  g = [canvasWidth |-> 200, canvasHeight |-> 200, dx |-> 0, dy |-> 50]

\* the 200 x 100 source padded to a square
C8_Witness ==
    /\ PadDone
    /\ PadSource.w = 200 /\ PadSource.h = 100 /\ PadRatio = <<1, 1>>
    /\ PadResult.w = 200 /\ PadResult.h = 200 /\ padLocals.dy = 50

\* C9: the padded canvas contains the source centred and is the smallest
\* such canvas of the target ratio within rounding: it is at least as wide
\* and as tall as the source, the source's rectangle at (dx, dy) lies inside
\* it, the margins on the two sides differ by at most one pixel, and it
\* keeps one dimension of the source while the other is within half a pixel
\* of what the ratio asks for.
C9_CanvasContainsSource ==
    PadDone =>
        LET w == PadSource.w
            h == PadSource.h
            g == padLocals
        IN  /\ g.canvasWidth >= w /\ g.canvasHeight >= h
            /\ g.dx >= 0 /\ g.dy >= 0
            /\ g.dx + w <= g.canvasWidth /\ g.dy + h <= g.canvasHeight
            /\ AbsInt((g.canvasWidth - w - g.dx) - g.dx) <= 1
            /\ AbsInt((g.canvasHeight - h - g.dy) - g.dy) <= 1
            /\ \/ /\ g.canvasWidth = w
                  /\ 2 * AbsInt(g.canvasHeight * PadRatio[1] - w * PadRatio[2]) <= PadRatio[1]
               \/ /\ g.canvasHeight = h
                  /\ 2 * AbsInt(g.canvasWidth * PadRatio[2] - h * PadRatio[1]) <= PadRatio[2]

\* a source that padding really grows, with a margin on both sides
C9_Witness ==
    /\ PadDone
    /\ padLocals.canvasHeight > PadSource.h + 1
    /\ padLocals.dy > 0
    /\ padLocals.dy + PadSource.h < padLocals.canvasHeight

---------------------------------------------------------------------------
(* Properties of getClosestAspectRatio *)

\* the call returned for an image that loaded and has a ratio width / height
GcaDone == gcaPc = "settled" /\ gcaImage.ok /\ gcaImage.img.h > 0
GcaDiff(i) == RatioDiff(gcaImage.img.w, gcaImage.img.h, supportedRatios[i].value)

SupportedLabels == {supportedRatios[i].label : i \in DOMAIN supportedRatios}

\* C11: getClosestAspectRatio never rejects: for every input, also one that
\* does not load or has height 0, it resolves to one of the five labels, and
\* to "1:1" when the load fails or the height is 0.
C11_RatioNeverFails ==
    gcaPc = "settled" =>
        /\ gcaOut.status = "resolved"
        /\ gcaOut.label \in SupportedLabels
        /\ (~gcaImage.ok \/ gcaImage.img.h = 0) => gcaOut.label = "1:1"

\* a call whose image does not load, resolved to "1:1"
C11_Witness ==
    /\ gcaPc = "settled" /\ ~gcaImage.ok
    /\ gcaOut = [status |-> "resolved", label |-> "1:1"]


---------------------------------------------------------------------------
(* Properties of cropImage *)

CrSource == crArgs.image.base64.img
CrBox == crArgs.box
CrResult == crOut.value.base64.img
\* the call returned for an image that loaded and a box inside the image
CrDoneInside ==
    /\ crPc = "settled" /\ crArgs.image.base64.ok
    /\ CrBox.x + CrBox.width <= CrSource.w /\ CrBox.y + CrBox.height <= CrSource.h
\* the result is the box's rectangle of the source, pixel for pixel
CrExactCopy ==
    /\ crOut.status = "resolved"
    /\ CrResult.w = MathRound(CrBox.width, 1) /\ CrResult.h = MathRound(CrBox.height, 1)
    /\ \A p \in Coords(CrResult.w, CrResult.h) :
          CrResult.px[p] = PixelAt(CrSource, CrBox.x + p[1], CrBox.y + p[2])

---------------------------------------------------------------------------
(* Properties of compositeImage *)

CiBg == ciArgs.bgImage.base64.img
CiFg == ciArgs.fgImage.base64.img
CiMask == ciArgs.maskImage.base64.img
CiResult == ciOut.value.img
CiLoaded == ciArgs.bgImage.base64.ok /\ ciArgs.fgImage.base64.ok /\ ciArgs.maskImage.base64.ok
\* the foreground stretched over the whole canvas
CiFgAt(p) == StretchedPixel(CiFg, CiBg.w, CiBg.h, p[1], p[2])
CiMaskAt(p) == PixelAt(CiMask, p[1], p[2])

\* C13: the result of compositeImage does not depend on box: with the same
\* background, foreground, mask and options, another box gives the same
\* outcome.
C13_BoxIgnored == ciPc = "compared" => ciOut2 = ciOut

\* a pair of calls whose images load, where the foreground is not the
\* background and the mask lets some of it through
C13_Witness ==
    /\ ciPc = "compared" /\ CiLoaded
    /\ ciOut.status = "resolved" /\ ciOut2 = ciOut
    /\ CiResult # CiBg
    /\ \E p \in Coords(CiBg.w, CiBg.h) : CiResult.px[p] = CiBg.px[p]

\* C14 as stated: with edgeBlend = 0 the result has the background's
\* dimensions, equals the background at every pixel where the mask is not
\* opaque and equals the stretched foreground where the mask is opaque.
C14_MaskSelectsForeground ==
    (ciPc # "idle" /\ CiLoaded /\ ciArgs.options.edgeBlend = 0) =>
        /\ ciOut.status = "resolved"
        /\ CiResult.w = CiBg.w /\ CiResult.h = CiBg.h
        /\ \A p \in Coords(CiBg.w, CiBg.h) :
              IF IsOpaque(CiMaskAt(p)) THEN CiResult.px[p] = CiFgAt(p)
              ELSE CiResult.px[p] = CiBg.px[p]

\* C14 amended: with edgeBlend = 0 the result has the background's
\* dimensions, equals the background at every pixel where the mask (drawn
\* unscaled at the origin) is fully transparent, and equals the stretched
\* foreground where the mask is opaque and the foreground pixel is opaque.
C14_MaskSelectsOpaqueForeground ==
    (ciPc # "idle" /\ CiLoaded /\ ciArgs.options.edgeBlend = 0) =>
        /\ ciOut.status = "resolved"
        /\ CiResult.w = CiBg.w /\ CiResult.h = CiBg.h
        /\ \A p \in Coords(CiBg.w, CiBg.h) :
              /\ CiMaskAt(p) = Transparent => CiResult.px[p] = CiBg.px[p]
              /\ (IsOpaque(CiMaskAt(p)) /\ IsOpaque(CiFgAt(p))) => CiResult.px[p] = CiFgAt(p)

\* an opaque foreground under a mask smaller than the background, opaque at
\* its first pixel: the foreground shows there and nowhere else
C14_Witness ==
    /\ ciPc # "idle" /\ CiLoaded /\ ciArgs.options.edgeBlend = 0
    /\ CiBg.w = MaxDim /\ CiBg.h = MaxDim /\ CiMask.w = 1 /\ CiMask.h = 1
    /\ IsOpaque(CiMaskAt(<<0, 0>>))
    /\ \A q \in DOMAIN CiFg.px : IsOpaque(CiFg.px[q])
    /\ CiResult.px[<<0, 0>>] = CiFgAt(<<0, 0>>)
    /\ CiResult.px[<<1, 1>>] = CiBg.px[<<1, 1>>]


---------------------------------------------------------------------------
(* Properties of generateImageRest *)

\* no request of the call produced an image
GirNoImage ==
    /\ girImagen.kind # "predictions"
    /\ \A i \in DOMAIN girResults : girResults[i] # "image"

\* C15: generateImageRest never rejects, and when neither the Imagen request
\* nor the fallback produced an image it resolves to the empty list.
C15_NoImageIsEmptyList ==
    girPc = "settled" =>
        /\ girOut.status = "resolved"
        /\ GirNoImage => girOut.images = <<>>

\* a call whose Imagen request got a status that is not OK and whose two
\* fallback requests both failed
C15_Witness ==
    /\ girPc = "settled" /\ girKey # "" /\ girCount = 2
    /\ girImagen.kind = "status"
    /\ girResults = <<"status", "threw">>
    /\ girOut = [status |-> "resolved", images |-> <<>>]


---------------------------------------------------------------------------
(* Properties of concurrent compositing calls *)

\* what call i returns when it runs alone
CcAlone(i) ==
    IF ccKind[i] = "strictComposite"
    THEN strictComposite(ccArgs[i].first, ccArgs[i].second, ccArgs[i].mask)
    ELSE compositeImage(PngSource(ccArgs[i].first), PngSource(ccArgs[i].second), CcBox,
                        PngSource(ccArgs[i].mask), CcOptions)

\* C16: compositing calls issued concurrently are independent: however their
\* load and draw steps alternate, each call returns what it returns when run
\* alone.
C16_ConcurrentCallsIndependent ==
    \A i \in Siblings : ccPc[i] = "settled" => ccOut[i] = CcAlone(i)

\* two calls of different images whose loads alternated, a compositeImage
\* and a strictComposite, both returned with a composed canvas
C16_Witness ==
    /\ ccOverlap
    /\ ccPc = [i \in Siblings |-> "settled"]
    /\ ccKind[1] = "compositeImage" /\ ccKind[2] = "strictComposite"
    /\ ccArgs[1].first # ccArgs[2].first /\ ccArgs[1].second # ccArgs[2].second
    /\ \A i \in Siblings : ccOut[i].status = "resolved" /\ ccOut[i].value.ok
    /\ ccOut[1] # ccOut[2]


---------------------------------------------------------------------------
(* Properties of the API key *)

\* the stored key, "" when the item is removed
AkStored == IF akStorage = null THEN "" ELSE akStorage
\* the key the next remote request of either kind will carry
AkNextKeys == {RequestKey(kind, akStorage, akEnv, akAi) : kind \in {"rest", "ai"}}

\* C17 as stated: after any sequence of updateGeminiApiKey calls the stored
\* key and the key used by the next remote request equal the argument of
\* the most recent call, and after a call with an empty key the stored key
\* is removed.
C17_KeyFollowsLastUpdate ==
    akLast # "none" =>
        /\ AkStored = akLast
        /\ AkNextKeys = {akLast}
        /\ akLast = "" => akStorage = null

\* C17 amended: after any sequence of updateGeminiApiKey calls the stored
\* key equals the argument of the most recent call, removed when that is
\* empty; the next remote request uses that argument when it is not empty,
\* and otherwise the build's process.env.API_KEY, or no key when the build
\* defines none.
C17_KeyFollowsLastUpdateOrEnv ==
    akLast # "none" =>
        /\ AkStored = akLast
        /\ akLast = "" => akStorage = null
        /\ AkNextKeys = {IF akLast # "" THEN akLast ELSE akEnv}

\* a key replaced by another and a request made through ai with the new key,
\* in a build that defines a key of its own
C17_Witness ==
    /\ akEnv # "" /\ akLast = "key2" /\ akStorage = "key2" /\ akUpdates > 1
    /\ akRequest = [kind |-> "ai", key |-> "key2"]


---------------------------------------------------------------------------
(* Properties of getActivationCode *)

\* C18: getActivationCode returns a string of exactly six decimal digits for
\* every email: "000000" for the empty email, otherwise a positive value
\* derived from the hash reduced mod 900000.
C18_CodeHasSixDigits ==
    acPc = "returned" =>
        /\ Len(acCode) = 6
        /\ \A i \in DOMAIN acCode : acCode[i] \in 0 .. 9
        /\ acEmail = <<>> => acCode = <<0, 0, 0, 0, 0, 0>>
        /\ acEmail # <<>> => acCode[1] # 0


---------------------------------------------------------------------------
(* Properties of the image editor *)

\* C19: when a generation is run with a painted mask, the result stored in
\* the history and shown to the user equals the original image at every
\* pixel the user did not paint, whatever the remote model returned.
C19_UnpaintedPixelsKeepOriginal ==
    (edResultOf.stored /\ edPc = "idle" /\ PaintedPixels(edResultOf.strokes) # {}) =>
        /\ edHistory[1].result = edResultOf.result
        /\ edComparison.after = edResultOf.result
        /\ edResultOf.result.ok
        /\ edResultOf.result.img.w = edOriginal.img.w
        /\ edResultOf.result.img.h = edOriginal.img.h
        /\ \A p \in Coords(edOriginal.img.w, edOriginal.img.h) \ PaintedPixels(edResultOf.strokes) :
              edResultOf.result.img.px[p] = edOriginal.img.px[p]

\* C20: snapshot() returns a black/white mask of the canvas's dimensions,
\* white exactly at the pixels painted and not erased, black at every other.
C20_SnapshotMaskMatchesPaint ==
    edSnap.taken =>
        /\ edSnap.mask.ok
        /\ edSnap.mask.img.w = edSnap.strokes.w
        /\ edSnap.mask.img.h = edSnap.strokes.h
        /\ \A p \in Coords(edSnap.strokes.w, edSnap.strokes.h) :
              edSnap.mask.img.px[p] =
                  IF p \in PaintedPixels(edSnap.strokes) THEN MaskWhite ELSE MaskBlack


---------------------------------------------------------------------------
(* Properties of the virtual tour *)

\* C21: after an upload (or removal) the current image stays the uploaded one
\* (or none) and both stacks stay empty until the user's next navigate,
\* effect, undo or redo, even if an earlier request settles afterwards.
C21_UploadResetsTour ==
    vtQuiet => /\ vtCurrent \in UploadImages \cup {NoTourImage}
               /\ vtUndo = <<>>
               /\ vtRedo = <<>>

\* undo then redo, and redo then undo, give back the state they started from
UndoRedoInverse ==
    /\ Len(vtUndo) > 0 => handleRedo(handleUndo(TourState)) = TourState
    /\ Len(vtRedo) > 0 => handleUndo(handleRedo(TourState)) = TourState

\* every image pushed on the undo stack is the one that was current, so that
\* undo brings back the image most recently replaced
PushesReplacedImage ==
    Len(vtUndo') > Len(vtUndo) => vtUndo'[Len(vtUndo')] = vtCurrent

\* C23: undo and redo are inverse (undo then redo, and redo then undo, restore
\* the current image and both stacks), and undo always makes the most
\* recently replaced image current.
C23_UndoRedoInverse == [](UndoRedoInverse) /\ [][PushesReplacedImage]_vars


---------------------------------------------------------------------------
(* Properties of the App *)

\* the render tab a step of handleGeneration works for
RequestingTab == IF apPending = NoGeneration THEN apPending'.renderType ELSE apPending.renderType

\* a step of handleGeneration: its start or the rest of it after the await
GenerationStep == apPending' # apPending

OtherTabsUntouched ==
    \A t \in RenderTabs \ {RequestingTab} :
        /\ apTabStates'[t].generatedImages = apTabStates[t].generatedImages
        /\ apTabStates'[t].selectedImageIndex = apTabStates[t].selectedImageIndex

ImagesInRequestingTab ==
    (apPending # NoGeneration /\ ~apOut'.threw) =>
        apTabStates'[RequestingTab].generatedImages = apOut'.images

\* C22: the images produced by handleGeneration(prompt, renderType, ...) are
\* stored in tabStates[renderType].generatedImages and no other tab's
\* generatedImages or selectedImageIndex is changed, whichever tab was active
\* when the callback was created or when the request completes.
C22_ImagesStoredInRequestingTab ==
    [][GenerationStep => (OtherTabsUntouched /\ ImagesInRequestingTab)]_vars

NewestFirst(list) == \A i \in 1 .. (Len(list) - 1) : list[i].id > list[i + 1].id

HistoriesBounded ==
    /\ \A h \in RenderTabs :
          Len(apHistory[h]) <= RENDER_HISTORY_LIMIT /\ NewestFirst(apHistory[h])
    /\ \A h \in OtherHistories :
          Len(hsHistory[h]) <= HistoryLimit(h) /\ NewestFirst(hsHistory[h])

\* a list that changes gets one new item in front of its newest (limit - 1)
\* items: the oldest one goes when the list was full
OldestDiscarded(old, new, limit) ==
    new # old => /\ Len(new) = Min(Len(old) + 1, limit)
                 /\ Tail(new) = SubSeq(old, 1, Len(new) - 1)

HistoryStep ==
    /\ \A h \in RenderTabs : OldestDiscarded(apHistory[h], apHistory'[h], RENDER_HISTORY_LIMIT)
    /\ \A h \in OtherHistories : OldestDiscarded(hsHistory[h], hsHistory'[h], HistoryLimit(h))

\* C27: after any sequence of generations every render-history list holds at
\* most 5 items and the edit history at most 3, newest first, the oldest item
\* being discarded when the limit is exceeded.
C27_HistoriesBounded == [](HistoriesBounded) /\ [][HistoryStep]_vars

\* a render history is full and has discarded its first item
C27_Witness ==
    \E h \in RenderTabs :
        Len(apHistory[h]) = RENDER_HISTORY_LIMIT /\ apHistory[h][1].id > RENDER_HISTORY_LIMIT


---------------------------------------------------------------------------
(* generateImageRest: the order of the services *)

\* a fallback request is among the requests sent so far
FallbackContacted == \E i \in DOMAIN girSent : girSent[i] = "pollinations"

\* the Imagen request threw (fetch or the reading of its body), had a status
\* that is not OK, or had no predictions
ImagenFailed == girImagen.kind \in {"threw", "badjson", "status", "empty"}

\* C24: with a key the first request goes to Imagen; the fallback service is
\* contacted only without a key or after an Imagen request that threw, was
\* not OK or had no predictions; predictions are returned as they came, with
\* no fallback request.
C24_ImagenFirstFallbackOnFailure ==
    /\ (girPc # "idle" /\ girKey # "") =>
            girSent # <<>> /\ girSent[1] = "imagen"
    /\ (girPc = "fallback" \/ FallbackContacted) =>
            girKey = "" \/ ImagenFailed
    /\ girImagen.kind = "predictions" =>
            /\ girPc = "settled"
            /\ girOut = [status |-> "resolved",
                         images |-> [i \in 1 .. girImagen.n |-> ImageFrom("imagen", i)]]
            /\ ~FallbackContacted

\* a call with a key whose Imagen request returned two predictions
C24_Witness ==
    /\ girPc = "settled" /\ girKey # "" /\ girCount = 2
    /\ girImagen = [kind |-> "predictions", n |-> 2]
    /\ girSent = <<"imagen">>
    /\ Len(girOut.images) = 2

\* C25: a call that went to the fallback service for imageCount images
\* resolves to imageCount images when every request succeeded and to the
\* empty list when one failed, never to a part of them.
C25_FallbackAllOrNothing ==
    (girPc = "settled" /\ girImagen.kind # "predictions") =>
        /\ girOut.status = "resolved"
        /\ IF \A i \in DOMAIN girResults : girResults[i] = "image"
           THEN girOut.images = [i \in 1 .. girCount |-> ImageFrom("pollinations", i)]
           ELSE girOut.images = <<>>

\* two fallback requests of which the first gave an image and the second a
\* status that is not OK
C25_Witness ==
    /\ girPc = "settled" /\ girCount = 2
    /\ girResults = <<"image", "status">>
    /\ girOut.images = <<>>


---------------------------------------------------------------------------
(* ExpandUtility: the preview follows the selection *)

\* no preview computation is pending
PreviewsSettled == exRuns = <<>>

\* a step that stores a preview stores one computed for the selection of the
\* moment
StoresCurrentPreview ==
    (exPreview' # exPreview /\ exPreview' # NoPreview) =>
        exPreview'.source = exSource' /\ exPreview'.ratio = exRatio'

\* a preview on screen belongs to the selection on screen
PreviewOfSelection ==
    exPreview # NoPreview =>
        /\ exSource # NoUrl
        /\ exPreview.source = exSource /\ exPreview.ratio = exRatio

\* C29: a preview computed for an earlier selection never replaces
\* previewImage after the selection changed, and once every pending
\* computation has finished the preview shown is that of the latest selection.
C29_PreviewFollowsSelection ==
    [](PreviewsSettled => PreviewOfSelection) /\ [][StoresCurrentPreview]_vars


---------------------------------------------------------------------------
(* The mask editor's undo history *)

\* the canvas as the initial effect leaves it
BlankState == createCanvas(edCanvas.w, edCanvas.h)

\* once mounted the history starts with the blank state, and outside a
\* stroke its latest entry is the canvas on screen
HistoryHasBlankState ==
    edOriginal # NoUrl =>
        /\ Len(edStrokeHistory) >= 1
        /\ edStrokeHistory[1] = BlankState
        /\ ~edDrawing => edCanvas = edStrokeHistory[Len(edStrokeHistory)]

\* undo with one entry changes nothing; with more it drops the latest entry
\* and shows the one saved before it
UndoStep ==
    Undo =>
        IF Len(edStrokeHistory) = 1
        THEN UNCHANGED <<edStrokeHistory, edCanvas>>
        ELSE /\ edStrokeHistory' = SubSeq(edStrokeHistory, 1, Len(edStrokeHistory) - 1)
             /\ edCanvas' = edStrokeHistory[Len(edStrokeHistory) - 1]

\* only undo shortens the history, and by one entry
OnlyUndoShortens ==
    Len(edStrokeHistory') < Len(edStrokeHistory) =>
        Undo /\ Len(edStrokeHistory') = Len(edStrokeHistory) - 1

\* C28: after initialisation the stroke history always holds the initial
\* blank state; undo does nothing when only that state is left, and otherwise
\* removes the latest entry and puts the canvas back to the state saved
\* before the most recent stroke or clear.
C28_UndoKeepsBlankState ==
    [](HistoryHasBlankState) /\ [][UndoStep /\ OnlyUndoShortens]_vars

\* a stroke and a clear were saved and both undone: the canvas is blank
\* again and only the initial state is left
C28_Witness ==
    /\ edOriginal # NoUrl /\ edEvents = MaxEditorEvents /\ ~edDrawing
    /\ Len(edStrokeHistory) = 1
    /\ edCanvas = BlankState
    /\ edCtx # DefaultCtx


---------------------------------------------------------------------------
(* The data-URL helpers *)

\* the value parsed back is the image that was formatted
RoundTrips ==
    duBack = [null |-> FALSE, base64 |-> duImage.base64, mimeType |-> duImage.mimeType]

Contains(s, chars) == \E i \in DOMAIN s : s[i] \in chars

\* C30: for every SourceImage with a non-empty base64 payload and a media
\* type containing neither ';' nor ',',
\* dataUrlToSourceImage(sourceImageToDataUrl(img)) has the same base64 and
\* mimeType.
C30_RoundTrip ==
    (/\ duPc = "parsed"
     /\ duImage.base64 # <<>>
     /\ ~Contains(duImage.mimeType, {";", ","})) => RoundTrips

\* C30 as amended: the round trip holds when moreover the payload has no ','
\* (none of the base64 alphabet is one) and the media type is not empty and
\* has no line break.
C30_RoundTripOfWellFormed ==
    (/\ duPc = "parsed"
     /\ duImage.base64 # <<>>
     /\ ~Contains(duImage.base64, {","})
     /\ duImage.mimeType # <<>>
     /\ ~Contains(duImage.mimeType, {";", ","} \cup LineTerminators)) => RoundTrips

\* a media type with a colon in it and a padded payload, parsed back whole
C30_Witness ==
    /\ duPc = "parsed"
    /\ duImage = [base64 |-> <<"A", "=">>, mimeType |-> <<"i", ":">>]
    /\ duUrl = DataColon \o <<"i", ":">> \o Base64Comma \o <<"A", "=">>
    /\ RoundTrips


---------------------------------------------------------------------------
(* The busy flags *)

\* C26: every generation request that sets a busy flag (isLoading of the
\* render tabs, of the virtual tour and of the expand utility, isProcessing
\* of the image editor) eventually clears it, whether the remote call gives
\* images, nothing or an error.
C26_BusyFlagsClear ==
    /\ apLoading ~> ~apLoading
    /\ vtLoading ~> ~vtLoading
    /\ exLoading ~> ~exLoading
    /\ edProcessing ~> ~edProcessing

\* a render-tab generation whose remote call threw, with the flag cleared
C26_Witness ==
    /\ apOut.threw /\ apPending = NoGeneration
    /\ ~apLoading

=============================================================================
